---- MODULE Spec2Model ----
(***************************************************************************)
(* GoldBot trading engine: runtime state (state.js), broker client         *)
(* (api.js), position manager and reconciler (strategy.js) and the         *)
(* polling scheduler (index.js).                                           *)
(*                                                                         *)
(* JavaScript runs one callback at a time; another callback can run only   *)
(* while the current one is suspended on an await of network or database   *)
(* I/O.  Every action below is therefore one synchronous run of a          *)
(* callback: from a timer fire or the completion of an awaited call up to  *)
(* the next await that really suspends (or the return).                    *)
(* Prices and money are integers in units of 0.1.                          *)
(***************************************************************************)
EXTENDS Integers, Sequences, FiniteSets, TLC

\* ---------------------------------------------------------------- bounds
MaxDeals == 2        \* dealIds the broker hands out in one run
MaxMiss  == 4        \* cap of a reconcile miss counter
MaxTails == 1        \* price-ticker tails in flight are counted up to this
MaxRiskDeals == 4    \* dealIds of a run that fills the day's trade allowance

\* ------------------------------------------------------- program constants
MAX_TRADES_PER_DAY     == 3
DAILY_LOSS_LIMIT_USD   == 100
MAX_CONSECUTIVE_LOSSES == 3
SCALP_SIZE_UNITS       == 1
SWING_SIZE_UNITS       == 1
MISS_THRESHOLD         == 3
TP1_R                  == 1
TP2_R_SCALP            == 2
TP2_R_SWING            == 3
PARTIAL_NUM            == 1   \* PARTIAL_CLOSE_TP1 = 0.50 = PARTIAL_NUM / PARTIAL_DEN
PARTIAL_DEN            == 2

\* ------------------------------------------------------------ small helpers
None    == << >>
Some(v) == << v >>
IsSome(o) == o # << >>
Val(o)  == o[1]

DealIds == 1 .. MaxDeals

Abs(x) == IF x < 0 THEN -x ELSE x

RECURSIVE SeqFilterOut(_, _)
\* Array.prototype.filter(p => p.dealId !== id)
SeqFilterOut(s, id) ==
  IF s = << >> THEN << >>
  ELSE IF Head(s).dealId = id THEN SeqFilterOut(Tail(s), id)
       ELSE << Head(s) >> \o SeqFilterOut(Tail(s), id)

IdsOf(s) == { s[i].dealId : i \in 1 .. Len(s) }

\* ------------------------------------------------------------- state.js
\* S is the module state of state.js:
\*   openPositions, tradesToday, dayRealizedPnlUsd, consecutiveLosses,
\*   setupScalp, setupSwing
NoSetup == [active |-> FALSE, direction |-> "NONE", pullbackExtreme |-> 0,
            touchPrice |-> 0]

riskOK(S) ==
  IF S.tradesToday >= MAX_TRADES_PER_DAY THEN FALSE
  ELSE IF S.dayRealizedPnlUsd <= -DAILY_LOSS_LIMIT_USD THEN FALSE
  ELSE IF S.consecutiveLosses >= MAX_CONSECUTIVE_LOSSES THEN FALSE
  ELSE TRUE

addPosition(S, pos) ==
  [S EXCEPT !.openPositions = Append(@, pos), !.tradesToday = @ + 1]

adoptPosition(S, pos) ==
  [S EXCEPT !.openPositions = Append(@, pos)]

\* mutation: a replacement counts as a trade of the day
replacePosition_counted(S, oldDealId, newPos) ==
  [S EXCEPT !.openPositions = Append(SeqFilterOut(@, oldDealId), newPos),
            !.tradesToday = @ + 1]

replacePosition(S, oldDealId, newPos) ==
  [S EXCEPT !.openPositions = Append(SeqFilterOut(@, oldDealId), newPos)]

\* mutation: the filter keeps the wrong side
removePosition_inverted(S, dealId) ==
  [S EXCEPT !.openPositions =
     SelectSeq(@, LAMBDA p : p.dealId = dealId)]

removePosition(S, dealId) ==
  [S EXCEPT !.openPositions = SeqFilterOut(@, dealId)]

\* variant: a pnl of exactly 0 counts as a loss
updatePnL_zeroIsLoss(S, pnlUsd, isLoss) ==
  [S EXCEPT !.dayRealizedPnlUsd = @ + pnlUsd,
            !.consecutiveLosses = IF isLoss \/ pnlUsd = 0 THEN @ + 1 ELSE 0]

updatePnL(S, pnlUsd, isLoss) ==
  [S EXCEPT !.dayRealizedPnlUsd = @ + pnlUsd,
            !.consecutiveLosses = IF isLoss THEN @ + 1 ELSE 0]

dailyReset(S) ==
  [S EXCEPT !.dayRealizedPnlUsd = 0, !.tradesToday = 0,
            !.consecutiveLosses = 0,
            !.setupScalp = NoSetup, !.setupSwing = NoSetup]

\* mutation: the catch block leaves the position as it is
MarkTp1Done_skipped(S, dealId) == S

\* pos.tp1Done = true on the position object a snapshot shares with the
\* tracked array (the object is still in the array iff its dealId is)
MarkTp1Done(S, dealId) ==
  [S EXCEPT !.openPositions =
     [i \in 1 .. Len(@) |->
        IF @[i].dealId = dealId THEN [@[i] EXCEPT !.tp1Done = TRUE] ELSE @[i]]]

\* -------------------------------------------------- array handles (aliases)
\* state.getPositions() returns the array itself: push() (addPosition,
\* adoptPosition) stays visible through a handle, while filter()
\* (replacePosition, removePosition) installs a new array and leaves the
\* handle on the old one.
LiveRef == [live |-> TRUE, arr |-> << >>]
Deref(ref, S) == IF ref.live THEN S.openPositions ELSE ref.arr
Detach(ref, oldArr) == IF ref.live THEN [live |-> FALSE, arr |-> oldArr] ELSE ref

\* ----------------------------------------------------------------- inputs
\* what GET /positions returns at startup (syncExistingPositions)
BootBuy2  == [direction |-> "BUY",  size |-> 2, level |-> 100,
              stopLevel |-> Some(92),  limitLevel |-> Some(116)]
BootSell1 == [direction |-> "SELL", size |-> 1, level |-> 101,
              stopLevel |-> Some(109), limitLevel |-> None]
BootNoSL  == [direction |-> "BUY",  size |-> 1, level |-> 100,
              stopLevel |-> None,      limitLevel |-> None]
BootChoices == { << >>, << BootBuy2 >>, << BootSell1, BootNoSL >> }

\* GET /markets/{epic}: bid, offer, marketStatus
Quotes == { [bid |-> 92,  ask |-> 93], [bid |-> 108, ask |-> 109],
            [bid |-> 116, ask |-> 117] }

\* the last closed bar of a timeframe as a candle handler can find it; a
\* quiet market closes every bar as FirstBar
FirstBar == [low |-> 97, high |-> 104]
Bars == { FirstBar, [low |-> 95, high |-> 106] }
Feeds == { { FirstBar }, Bars }

\* ---------------------------------------------------------------- mlModel.js
ML_BUY_THRESHOLD  == 60    \* 0.60, scores are in hundredths
ML_SELL_THRESHOLD == 40    \* 0.40

\* models/current.json and models/challenger.json as _loadFile returns them
\* (None = no file, or a file that does not parse): one weighted feature
Champions   == { None, Some([version |-> "champion", bias |-> 0, w |-> 1]) }
Challengers == { None, Some([version |-> "cand_a", bias |-> 1, w |-> -1]),
                 Some([version |-> "cand_b", bias |-> -1, w |-> 1]) }
NoModels == [champion |-> None, challenger |-> None]

\* sig.features: {} until the handler has built the snapshot (None), then
\* the value of the weighted feature
Features == { Some(-1), Some(1) }

\* 1 / (1 + Math.exp(-x)) in hundredths, for the logits that occur
sigmoid(x) ==
  IF x <= -2 THEN 12 ELSE IF x = -1 THEN 27 ELSE IF x = 0 THEN 50
  ELSE IF x = 1 THEN 73 ELSE 88

\* bias plus weight * value for every weighted feature the snapshot has
_scoreModel(model, features) ==
  IF model = None THEN None
  ELSE LET m     == Val(model)
           logit == IF IsSome(features) THEN m.bias + m.w * Val(features)
                                        ELSE m.bias
       IN  Some([score |-> sigmoid(logit), version |-> m.version])

\* mutation: without a champion the gate falls back on the challenger
score_fallback(mods, features) ==
  IF mods.champion = None THEN _scoreModel(mods.challenger, features)
  ELSE _scoreModel(mods.champion, features)

score(mods, features) == _scoreModel(mods.champion, features)

scoreChallenger(mods, features) == _scoreModel(mods.challenger, features)

\* the ML confidence gate of onM5Close
mlBlocked(direction, mlScore) ==
  \/ direction = "BUY"  /\ mlScore < ML_BUY_THRESHOLD
  \/ direction = "SELL" /\ mlScore > ML_SELL_THRESHOLD

\* GET /history/activity: the lists the broker can return when asked about
\* deal d (other marks a record of another deal); a deal that is still open
\* has no close record
ActOpened(d) == [dealId |-> d, closed |-> FALSE, dp |-> None,     p |-> Some(9)]
ActBoth(d)   == [dealId |-> d, closed |-> TRUE,  dp |-> Some(-8), p |-> Some(5)]
ActTop(d)    == [dealId |-> d, closed |-> TRUE,  dp |-> None,     p |-> Some(4)]
ActBare(d)   == [dealId |-> d, closed |-> TRUE,  dp |-> None,     p |-> None]
Activities(d, open) ==
  IF open THEN { << >>, << ActOpened(d) >> }
  ELSE { << >>, << ActOpened(d), ActBoth(d) >>, << ActTop(0), ActTop(d) >>,
         << ActBare(d) >> }

\* `profit` of a close confirmation (may be missing)
ConfirmProfits == { None, Some(0), Some(-8) }

\* Telegram notification sent by the step that led to the state (if any)
NoNotify == [event |-> "NONE", dealId |-> 0, pnl |-> None]
Notify(ev, id, pnl) == [event |-> ev, dealId |-> id, pnl |-> pnl]

\* ------------------------------------------------------------ candle store
HISTORY_BARS == 300
INCREMENTAL_BARS == 6
MaxClock == 10
CandleClock == 8      \* the clock of the two-job candle specification
MaxQuotes == 2

\* the timeframes with a strategy handler, in the order loadHistory takes them
ActiveTFs == << "M5", "H1" >>
TFs == { "M5", "H1" }
\* bar periods on the model's clock (one unit is the resolution of the clock;
\* the ratio of the two periods is shortened to 1 : 2)
TF_MS == [M5 |-> 2, H1 |-> 4]
\* M5 keeps 600 bars in the source; the cap is shortened with the clock so
\* that the bars published within MaxClock exceed it
M5_HISTORY == 3
TF_HISTORY == [M5 |-> M5_HISTORY, H1 |-> HISTORY_BARS]

LastN(s, n) == IF Len(s) <= n THEN s ELSE SubSeq(s, Len(s) - n + 1, Len(s))
Reverse(s) == [i \in 1 .. Len(s) |-> s[Len(s) + 1 - i]]

\* the broker's series for tf once k bars have opened; time is the open time
Series(tf, k) == [i \in 1 .. k |-> [time |-> i * TF_MS[tf]]]
\* bars of tf that have opened by time t (the last of them is in progress)
Opened(tf, t) == t \div TF_MS[tf]
\* res.data.prices of GET /prices with resolution tf and max: the newest max
\* bars published, which are all opened bars or all but the newest, oldest
\* or newest first
Prices(tf, t, max) ==
  { LastN(Series(tf, k), max) : k \in { Opened(tf, t) - 1, Opened(tf, t) } \cap Nat }
  \cup { Reverse(LastN(Series(tf, k), max)) :
             k \in { Opened(tf, t) - 1, Opened(tf, t) } \cap Nat }

\* Array.prototype.sort((a, b) => a.time - b.time): stable, ascending
RECURSIVE SortByTime(_)
SortByTime(s) ==
  IF s = << >> THEN << >>
  ELSE LET b    == s[Len(s)]
           rest == SortByTime(SubSeq(s, 1, Len(s) - 1))
       IN  SelectSeq(rest, LAMBDA x : x.time <= b.time) \o << b >>
           \o SelectSeq(rest, LAMBDA x : x.time > b.time)

getCandles(prices) == SortByTime(prices)

dropInProgress_keep(tf, bars, t) == bars

dropInProgress(tf, bars, t) ==
  IF Len(bars) = 0 THEN bars
  ELSE LET last       == bars[Len(bars)]
           elapsed    == t - last.time
           inProgress == elapsed < TF_MS[tf]
       IN  IF inProgress THEN SubSeq(bars, 1, Len(bars) - 1) ELSE bars

fetchFull_noseed(tf, S, bars, t) ==
  [store |-> dropInProgress(tf, bars, t), last |-> S.last]

\* fetchFull after getCandles returned; S = [store, last] of the timeframe
fetchFull(tf, S, bars, t) ==
  LET closed == dropInProgress(tf, bars, t)
  IN  [store |-> closed,
       last  |-> IF Len(closed) > 0 THEN closed[Len(closed)].time ELSE S.last]

IsNewer_all(bar, oldLastTime) == TRUE

\* if (bar.time > oldLastTime) in the loop of update
IsNewer(bar, oldLastTime) == bar.time > oldLastTime

\* variant: the trim keeps the oldest bars
Trim_oldest(tf, s) ==
  IF Len(s) > TF_HISTORY[tf] THEN SubSeq(s, 1, TF_HISTORY[tf]) ELSE s

\* if (store[tf].length > TF_HISTORY[tf]) store[tf] = store[tf].slice(-TF_HISTORY[tf])
Trim(tf, s) ==
  IF Len(s) > TF_HISTORY[tf] THEN LastN(s, TF_HISTORY[tf]) ELSE s

\* update after getCandles returned: the new store and lastClosedTime, the
\* value returned and the bars pushed
update(tf, S, bars, t) ==
  LET closed == dropInProgress(tf, bars, t)
      same   == [store |-> S.store, last |-> S.last, ret |-> FALSE, added |-> << >>]
  IN  IF Len(closed) = 0 THEN same
      ELSE LET newest      == closed[Len(closed)]
               hadNewClose == newest.time > S.last
               addedBars   == SelectSeq(closed, LAMBDA bar : IsNewer(bar, S.last))
           IN  IF hadNewClose
               THEN [store |-> Trim(tf, S.store \o addedBars),
                     last  |-> newest.time,
                     ret   |-> TRUE,
                     added |-> addedBars]
               ELSE same

\* -------------------------------------------------------------- variables
VARIABLES
  st,            \* state.js module state
  cfg,           \* configuration: MOVE_SL_TO_BREAKEVEN_ON_TP1, swingEnabled,
                 \* DB_URL set
  miss,          \* _reconcileMissCount (0 = no entry)
  remote,        \* broker: dealIds of the open positions
  nextDeal,      \* broker: next fresh dealId
  dealCap,       \* broker: the dealIds it hands out in this run
  gateRun,       \* one evaluation of the gate chain of onM5Close: what each
                 \* gate answers, and what the chain made of it
  boot,          \* broker: positions open when the bot starts
  feed,          \* market: the bars a candle of this run can close as
  models,        \* mlModel.js: _champion and _challenger
  confirm,       \* api.js: the _confirmDeal call in progress: its retries,
                 \* attempt, where it waits, the dealStatus of each poll
  session,       \* api.js: _cst, _secToken, _accountId, _refreshTimer, the
                 \* createSession and destroySession calls in progress, and
                 \* the sessions the broker holds
  pcMain, shutting,
  quoteBuf,      \* length of _quoteBuffer
  pcTick, tickBusy, tickTails,
  mpRef, mpSnap, mpIdx, mpQuote, mpBranch, mpConfirmed,
  pcRec, reconcBusy, recRef, recSnap, recIdx, recIds, recMisses, recStillOpen,
  notified,
  pcM5, m5Busy, m5Order, sigAction,
  sigMl,         \* sig.features, sig.modelScore and sig.modelVersion of the
                 \* running onM5Close
  pcH1, h1Busy, h1Order,
  pcReset,
  \* history variables, read by the properties only
  addCalls,      \* addPosition calls since the last dailyReset
  recInstalled,  \* dealIds added or installed since the running reconcile
                 \* cycle took its snapshot
  erred,         \* dealIds whose latest direct fetch raised an error
  recGone,       \* dealIds the reconciler has removed
  bookings,      \* per dealId: the updatePnL calls made for it (up to 2)
  tp1Runs,       \* per dealId: the runs of the TP1 branch of managePositions
                 \* for it or for the position it follows (up to 2)
  fetched,       \* the activity list fetched in the step leading to the state
  streak,        \* per dealId: consecutive fetched lists without it
  created,       \* what api.createPosition answered placeOrder in the step
                 \* leading to the state (if it did)
  sigM5, sigH1,  \* insertSignal calls of the current / last handler invocation
  ret,           \* the handler that returned in the step leading to the state
  \* candleStore.js
  now,            \* Date.now()
  toLoad,         \* timeframes loadHistory has still to fetch
  store,          \* per timeframe: the closed bars
  lastClosedTime, \* per timeframe: time of the newest stored bar (0 = none)
  \* history variables of the candle store
  storedAt,       \* per timeframe, parallel to store: the clock when stored
  evals,          \* per timeframe: latest bar time at each handler invocation
  loaded,         \* per timeframe: the bars getCandles gave fetchFull, and when
  placed,         \* the placeOrder call made in the step leading to the state
  fired,          \* the job whose timer callback got past its guard in the
                  \* step leading to the state
  lastUpd,        \* the update(tf) call that returned in the step leading to
                  \* the state: its bars, its result, the bars it appended
  mpAnswer,       \* what api.closePosition or api.createPosition answered
                  \* managePositions in the step leading to the state
  preds,          \* the insertPrediction calls made in the step leading to
                  \* the state
  threw           \* the fetch that threw in the step leading to the state:
                  \* "price", "positions", "candles", or "NONE"

brokerVars == << remote, nextDeal, dealCap, gateRun, boot, feed, models,
                confirm, session >>
mainVars   == << pcMain, shutting >>
tickRest   == << pcTick, tickBusy, tickTails, mpSnap, mpIdx, mpQuote,
                 mpBranch, mpConfirmed, tp1Runs >>
tickVars   == << tickRest, mpRef >>
recRest    == << pcRec, reconcBusy, recSnap, recIdx, recIds,
                 recMisses, recStillOpen >>
recVars    == << recRest, recRef >>
recGhost   == << streak, erred, recGone, bookings >>
ghostVars  == << addCalls, recInstalled, recGhost >>
m5Vars     == << pcM5, m5Busy, m5Order, sigAction, sigMl >>
h1Vars     == << pcH1, h1Busy, h1Order >>
entryGhost == << sigM5, sigH1 >>
entryVars  == << m5Vars, h1Vars, pcReset, entryGhost >>
csVars     == << now, toLoad, store, lastClosedTime, storedAt, evals, loaded >>
vars == << st, cfg, miss, brokerVars, mainVars, tickVars, recVars, notified,
           ghostVars, entryVars, created, ret, fetched, csVars, lastUpd,
           quoteBuf, fired, placed, mpAnswer, preds, threw >>

\* api.js as loaded: no tokens, no refresh timer, no call made
NoSession ==
  [cst |-> 0, secToken |-> 0, accountId |-> "none", refreshTimer |-> FALSE,
   main |-> "new", refresh |-> "idle", destroy |-> "idle", sent |-> 0,
   issued |-> 0, live |-> {}]

\* no _confirmDeal call has been made
NoConfirm == [pc |-> "idle", retries |-> 0, attempt |-> 0, answers |-> << >>,
              out |-> "NONE"]

\* no gate chain is being looked at
NoGateRun == [in |-> << >>, out |-> << >>]

NoCreate == [ok |-> FALSE, status |-> "NONE", dealId |-> << >>]
NoFetch  == [ok |-> FALSE, acts |-> << >>, dealId |-> 0]
NoPlace  == [called |-> FALSE, mode |-> "NONE", entry |-> 0, tp1 |-> 0,
             spread |-> 0]
NoUpd    == [tf |-> "NONE", bars |-> << >>, ret |-> FALSE, added |-> << >>]
NoAnswer == [op |-> "NONE", ok |-> FALSE, dealId |-> << >>]
NoSigMl  == [features |-> None, model |-> None, candidate |-> FALSE]

\* a step of the position manager, the reconciler, the broker or main()
MpBase ==
  /\ ret' = "NONE" /\ created' = NoCreate /\ fetched' = NoFetch
  /\ lastUpd' = NoUpd /\ placed' = NoPlace /\ preds' = << >>
  /\ UNCHANGED << entryVars, csVars >>
CoreBase == MpBase /\ mpAnswer' = NoAnswer /\ threw' = "NONE"
CoreRest == CoreBase /\ fired' = "NONE"
CoreStep == CoreRest /\ UNCHANGED quoteBuf

Tracked == IdsOf(st.openPositions)

\* the process still runs callbacks (process.exit not reached)
Alive == pcMain \in {"running", "stopping", "late"}
\* setInterval timers exist from the end of main() until clearInterval; main()
\* creates them after clearInterval when the signal arrives during startup
TimersOn == pcMain \in {"running", "late"}
\* main() is still in its startup sequence
Booting == pcMain \in {"boot", "boot_stopping"}

JobStarts_noflag(busy) == ~busy

\* if (shutting || busy) return; at the head of every setInterval callback
JobStarts(busy) == ~(shutting \/ busy)

NoQuote == [bid |-> 0, ask |-> 0]

\* the state when main() starts, with a broker that hands out cap dealIds
InitWith(cap) ==
  /\ st = [openPositions |-> << >>, tradesToday |-> 0, dayRealizedPnlUsd |-> 0,
           consecutiveLosses |-> 0, setupScalp |-> NoSetup, setupSwing |-> NoSetup]
  /\ cfg \in [be : BOOLEAN, swing : BOOLEAN, db : BOOLEAN]
  /\ miss = [d \in DealIds |-> 0]
  /\ boot \in { b \in BootChoices : Len(b) <= MaxDeals }
  /\ remote = 1 .. Len(boot)
  /\ nextDeal = Len(boot) + 1
  /\ dealCap = cap
  /\ gateRun = NoGateRun
  /\ session = NoSession
  /\ pcMain = "boot" /\ shutting = FALSE /\ quoteBuf = 0
  /\ pcTick = "idle" /\ tickBusy = FALSE /\ tickTails = 0
  /\ mpRef = LiveRef /\ mpSnap = << >> /\ mpIdx = 0 /\ mpQuote = NoQuote
  /\ mpBranch = "NONE" /\ mpConfirmed = None
  /\ pcRec = "idle" /\ reconcBusy = FALSE /\ recRef = LiveRef
  /\ recSnap = << >> /\ recIdx = 0 /\ recIds = {} /\ recMisses = 0
  /\ recStillOpen = "unset"
  /\ notified = NoNotify
  /\ addCalls = 0 /\ recInstalled = {} /\ erred = {} /\ recGone = {}
  /\ bookings = [d \in DealIds |-> 0]
  /\ tp1Runs = [d \in DealIds |-> 0]
  /\ fetched = NoFetch
  /\ streak = [d \in DealIds |-> 0]
  /\ pcM5 = "idle" /\ m5Busy = FALSE /\ m5Order = << >> /\ sigAction = "NONE"
  /\ sigMl = NoSigMl
  /\ pcH1 = "idle" /\ h1Busy = FALSE /\ h1Order = << >>
  /\ pcReset = "off"
  /\ created = NoCreate /\ sigM5 = 0 /\ sigH1 = 0 /\ ret = "NONE"
  /\ now = 0 /\ toLoad = ActiveTFs
  /\ store = [tf \in TFs |-> << >>]
  /\ lastClosedTime = [tf \in TFs |-> 0]
  /\ storedAt = [tf \in TFs |-> << >>]
  /\ evals = [tf \in TFs |-> << >>]
  /\ loaded = [tf \in TFs |-> [bars |-> << >>, at |-> 0]]
  /\ lastUpd = NoUpd /\ fired = "NONE" /\ placed = NoPlace
  /\ mpAnswer = NoAnswer /\ preds = << >> /\ threw = "NONE"
  /\ feed \in Feeds
  /\ models \in [champion : Champions, challenger : Challengers]
  /\ confirm = NoConfirm

Init == InitWith(MaxDeals)

\* ------------------------------------------------------------------ broker
\* The broker closes an open deal by itself (stop, limit, margin call).
BrokerClose(d) ==
  /\ Alive
  /\ d \in remote
  /\ remote' = remote \ {d}
  /\ notified' = NoNotify /\ CoreStep
  /\ UNCHANGED << st, cfg, miss, nextDeal, dealCap, gateRun, boot, feed, models, confirm, session, mainVars, tickVars,
                  recVars, ghostVars >>

RECURSIVE FindClose(_, _)
\* activities.find(a => a.dealId === dealId && type position && status closed)
FindClose(acts, dealId) ==
  IF acts = << >> THEN << >>
  ELSE IF Head(acts).dealId = dealId /\ Head(acts).closed THEN << Head(acts) >>
       ELSE FindClose(Tail(acts), dealId)

\* mutation: the two profit fields are read in the other order
EventProfit_swapped(ev) == IF IsSome(ev.p) THEN ev.p ELSE ev.dp

\* closeEvent.details?.profit ?? closeEvent.profit ?? null
EventProfit(ev) == IF IsSome(ev.dp) THEN ev.dp ELSE ev.p

\* pnl the reconciler reads out of a fetched activity list (null if none)
HistoryPnl(acts, dealId) ==
  LET ce == FindClose(acts, dealId)
  IN  IF ce = << >> THEN None ELSE EventProfit(ce[1])

\* api.recoverPnlFromHistory: null when the fetch failed (ok = FALSE)
recoverPnlFromHistory(ok, acts, dealId) ==
  IF ok THEN HistoryPnl(acts, dealId) ELSE None

\* ------------------------------------------------------------------ api.js
CONFIRM_RETRIES == 6

\* what one GET /confirms/{ref} gives: no dealStatus yet (""), a dealStatus,
\* or "ERROR" when the request throws
PollAnswers == { "", "ACCEPTED", "REJECTED", "ERROR" }

\* GET /confirms/{ref} answers of one deal, in order: "" (no dealStatus yet),
\* a dealStatus, or "ERROR" (the request throws); "" once the list is over
PollAt(polls, k) == IF k <= Len(polls) THEN polls[k] ELSE ""

\* mutation: any dealStatus ends the polling with success
ConfirmReturns_any(dealStatus) == dealStatus # ""

\* the dealStatus values _confirmDeal returns on
ConfirmReturns(dealStatus) == dealStatus = "ACCEPTED"

RECURSIVE _confirmDeal(_, _)
_confirmDeal(polls, attempt) ==
  IF attempt >= CONFIRM_RETRIES THEN [ok |-> FALSE, status |-> "TIMEOUT"]
  ELSE LET dealStatus == PollAt(polls, attempt + 1) IN
       IF dealStatus = "ERROR" THEN [ok |-> FALSE, status |-> "ERROR"]
       ELSE IF ConfirmReturns(dealStatus) THEN [ok |-> TRUE, status |-> dealStatus]
       ELSE IF dealStatus # "" THEN [ok |-> FALSE, status |-> dealStatus]
       ELSE _confirmDeal(polls, attempt + 1)

\* how the broker answers one POST or DELETE /positions and its confirms
ScAccept   == [submit |-> "ref",   polls |-> << "ACCEPTED" >>,     idAt |-> "top"]
ScSlow     == [submit |-> "ref",   polls |-> << "", "ACCEPTED" >>, idAt |-> "affected"]
ScNoDealId == [submit |-> "ref",   polls |-> << "ACCEPTED" >>,     idAt |-> "none"]
ScRejected == [submit |-> "ref",   polls |-> << "", "REJECTED" >>, idAt |-> "top"]
ScLate     == [submit |-> "ref",   idAt |-> "top",
               polls |-> << "", "", "", "", "", "", "ACCEPTED" >>]
ScPollErr  == [submit |-> "ref",   polls |-> << "", "ERROR" >>,    idAt |-> "none"]
ScNoRef    == [submit |-> "noref", polls |-> << >>,                idAt |-> "none"]
ScError    == [submit |-> "error", polls |-> << >>,                idAt |-> "none"]
Scripts == { ScAccept, ScSlow, ScNoDealId, ScRejected, ScLate, ScPollErr,
             ScNoRef, ScError }
\* DELETE /positions/{dealId}: the confirmation carries no dealId to look for
CloseScripts == { ScAccept, ScRejected, ScLate, ScError }

\* the broker executed the request (whatever the bot gets to see of it)
Executed(sc) ==
  sc.submit # "error" /\ \E k \in 1 .. Len(sc.polls) : sc.polls[k] = "ACCEPTED"

\* api.closePosition: the confirmation, or a throw (ok = FALSE)
closePosition(sc) ==
  IF sc.submit = "error" THEN [ok |-> FALSE, status |-> "ERROR"]
  ELSE IF sc.submit = "noref" THEN [ok |-> FALSE, status |-> "NOREF"]
  ELSE _confirmDeal(sc.polls, 0)

\* api.createPosition: { dealId } of the new deal, or a throw (ok = FALSE)
createPosition(sc, newId) ==
  IF sc.submit = "error" THEN [ok |-> FALSE, status |-> "ERROR", dealId |-> None]
  ELSE IF sc.submit = "noref" THEN [ok |-> FALSE, status |-> "NOREF", dealId |-> None]
  ELSE LET confirmed == _confirmDeal(sc.polls, 0) IN
       IF ~confirmed.ok
       THEN [ok |-> FALSE, status |-> confirmed.status, dealId |-> None]
       ELSE IF sc.idAt = "none"
       THEN [ok |-> FALSE, status |-> confirmed.status, dealId |-> None]
       ELSE [ok |-> TRUE, status |-> confirmed.status, dealId |-> Some(newId)]

\* ----------------------------------------------------------------- startup
\* one platform position as syncExistingPositions adopts it ("skip" = none)
AdoptedFrom(p, id) ==
  IF p.level = 0 \/ ~IsSome(p.stopLevel) THEN << >>
  ELSE LET entry == p.level
           sl    == Val(p.stopLevel)
           R     == Abs(entry - sl)
           tp1   == IF p.direction = "BUY" THEN entry + TP1_R * R
                                           ELSE entry - TP1_R * R
           tp2   == IF IsSome(p.limitLevel) THEN Val(p.limitLevel)
                    ELSE IF p.direction = "BUY" THEN entry + TP2_R_SCALP * R
                                                ELSE entry - TP2_R_SCALP * R
       IN << [mode |-> "UNKNOWN", direction |-> p.direction, size |-> p.size,
              entry |-> entry, sl |-> sl, tp1 |-> tp1, tp2 |-> tp2,
              tp1Done |-> FALSE, dealId |-> id] >>

RECURSIVE SyncFrom(_, _, _)
SyncFrom(S, ps, i) ==
  IF i > Len(ps) THEN S
  ELSE LET a == AdoptedFrom(ps[i], i)
       IN  IF a = << >> THEN SyncFrom(S, ps, i + 1)
           ELSE SyncFrom(adoptPosition(S, a[1]), ps, i + 1)

\* main(): dailyReset, syncExistingPositions, then the timers are created and
\* the midnight reset is scheduled
syncExistingPositions ==
  /\ Booting /\ toLoad = << >>
  /\ \E ok \in BOOLEAN :
       st' = IF ok THEN SyncFrom(dailyReset(st), boot, 1) ELSE dailyReset(st)
  /\ pcMain' = IF shutting THEN "late" ELSE "running"
  /\ pcReset' = "armed"
  /\ notified' = NoNotify /\ ret' = "NONE" /\ created' = NoCreate
  /\ fetched' = NoFetch /\ lastUpd' = NoUpd /\ fired' = "NONE" /\ placed' = NoPlace
  /\ mpAnswer' = NoAnswer /\ preds' = << >> /\ threw' = "NONE"
  /\ UNCHANGED << m5Vars, h1Vars, entryGhost, csVars, quoteBuf >>
  /\ UNCHANGED << cfg, miss, brokerVars, shutting, tickVars, recVars, ghostVars >>

\* -------------------------------------------------------------- reconciler
\* mutation: the threshold check is off by one (direct fetch one miss early)
MissBelowThreshold_early(misses) == misses < MISS_THRESHOLD - 1

\* mutation: the threshold check lets one more miss pass
MissBelowThreshold_late(misses) == misses <= MISS_THRESHOLD

\* if (misses < MISS_THRESHOLD) continue
MissBelowThreshold(misses) == misses < MISS_THRESHOLD

\* mutation: the counter is not reset
ResetMiss_kept(m, d) == m

\* delete _reconcileMissCount[pos.dealId] / _reconcileMissCount[pos.dealId] = 0
\* (an absent key counts as 0)
ResetMiss(m, d) == [m EXCEPT ![d] = 0]

RECURSIVE RecRun(_, _, _, _)
\* the for-loop of reconcilePositions from position i of the snapshot up to
\* the next direct fetch (await api.getPosition) or the end of the loop
RecRun(m, snap, i, ids) ==
  IF i > Len(snap) THEN [miss |-> m, pc |-> "idle", idx |-> 0, misses |-> 0]
  ELSE LET d == snap[i] IN
       IF d \in ids THEN RecRun(ResetMiss(m, d), snap, i + 1, ids)
       ELSE LET misses == m[d] + 1
                m2     == [m EXCEPT ![d] = misses]
            IN  IF MissBelowThreshold(misses) THEN RecRun(m2, snap, i + 1, ids)
                ELSE [miss |-> m2, pc |-> "rec_direct", idx |-> i,
                      misses |-> misses]

\* the reconciler's variables after a run of the loop
RecApply(run, snap, ids, stillOpen) ==
  /\ miss' = run.miss
  /\ pcRec' = run.pc
  /\ reconcBusy' = (run.pc # "idle")
  /\ recIdx' = run.idx
  /\ recMisses' = run.misses
  /\ recSnap' = IF run.pc = "idle" THEN << >> ELSE snap
  /\ recIds' = IF run.pc = "idle" THEN {} ELSE ids
  /\ recStillOpen' = stillOpen
  /\ recRef' = LiveRef

\* one more state.updatePnL call for deal d
Booked(b, d) == [b EXCEPT ![d] = IF @ < 2 THEN @ + 1 ELSE 2]

\* setInterval callback of the reconcile job, up to await api.getPositions()
RecFire ==
  /\ TimersOn /\ JobStarts(reconcBusy)
  /\ \A d \in DealIds : miss[d] < MaxMiss
  /\ miss' = [d \in DealIds |-> IF d \in Tracked THEN miss[d] ELSE 0]
  /\ streak' = [d \in DealIds |-> IF d \in Tracked THEN streak[d] ELSE 0]
  /\ erred' = erred \cap Tracked
  /\ recInstalled' = {}
  /\ IF st.openPositions = << >>
     THEN UNCHANGED << pcRec, reconcBusy, recRef >>
     ELSE pcRec' = "rec_list" /\ reconcBusy' = TRUE /\ recRef' = LiveRef
  /\ recStillOpen' = "unset"
  /\ UNCHANGED << recSnap, recIdx, recIds, recMisses >>
  /\ notified' = NoNotify /\ CoreBase /\ fired' = "reconcile"
  /\ UNCHANGED quoteBuf
  /\ UNCHANGED << st, cfg, brokerVars, mainVars, tickVars, addCalls, recGone,
                  bookings >>

\* api.getPositions() returned or threw.  GET /positions is eventually
\* consistent: an open deal can be missing from the list and a closed one
\* can still be on it; ids are the tracked deals the list contains.
RecListReturn ==
  /\ Alive /\ pcRec = "rec_list"
  /\ \/ /\ RecApply([miss |-> miss, pc |-> "idle", idx |-> 0, misses |-> 0],
                    << >>, {}, "unset")
        /\ threw' = "positions"
        /\ UNCHANGED << streak, erred >>
     \/ LET arr  == Deref(recRef, st)
            snap == [i \in 1 .. Len(arr) |-> arr[i].dealId]
        IN  \E ids \in SUBSET IdsOf(arr) :
              /\ RecApply(RecRun(miss, snap, 1, ids), snap, ids, "unset")
              /\ streak' = [d \in DealIds |->
                              IF d \notin IdsOf(arr) THEN streak[d]
                              ELSE IF d \in ids THEN 0 ELSE streak[d] + 1]
              /\ erred' = { d \in erred : miss'[d] > 0 }
              /\ threw' = "NONE"
  /\ recInstalled' = {}
  /\ notified' = NoNotify /\ MpBase /\ mpAnswer' = NoAnswer
  /\ fired' = "NONE" /\ UNCHANGED quoteBuf
  /\ UNCHANGED << st, cfg, brokerVars, mainVars, tickVars, addCalls, recGone,
                  bookings >>

\* what GET /positions/{dealId} can answer: the position, a 404, an error
DirectOutcomes(d) == IF d \in remote THEN {"found", "error"} ELSE {"none", "error"}

\* api.getPosition(pos.dealId) returned or threw
RecDirectReturn ==
  /\ Alive /\ pcRec = "rec_direct"
  /\ LET d == recSnap[recIdx] IN
     \E r \in DirectOutcomes(d) :
       /\ IF r = "none"
          THEN /\ miss' = ResetMiss(miss, d)
               /\ pcRec' = "rec_activity"
               /\ recStillOpen' = r
               /\ UNCHANGED << reconcBusy, recSnap, recIdx, recIds, recMisses, recRef >>
          ELSE RecApply(RecRun(IF r = "found" THEN ResetMiss(miss, d) ELSE miss,
                               recSnap, recIdx + 1, recIds),
                        recSnap, recIds, r)
       /\ streak' = IF r = "found" THEN [streak EXCEPT ![d] = 0] ELSE streak
       /\ erred' = { e \in (IF r = "error" THEN erred \cup {d} ELSE erred \ {d}) :
                       miss'[e] > 0 }
  /\ notified' = NoNotify /\ CoreStep
  /\ UNCHANGED << st, cfg, brokerVars, mainVars, tickVars,
                  addCalls, recInstalled, recGone, bookings >>

\* api.getDayActivity() returned or threw: book the recovered PnL, remove the
\* position, notify, go on with the loop
RecActivityReturn ==
  /\ Alive /\ pcRec = "rec_activity"
  /\ LET d == recSnap[recIdx] IN
     \E ok \in BOOLEAN, acts \in Activities(d, d \in remote) :
       LET pnl == IF ok THEN HistoryPnl(acts, d) ELSE None
           S1  == IF IsSome(pnl) THEN updatePnL(st, Val(pnl), Val(pnl) < 0) ELSE st
       IN  /\ st' = removePosition(S1, d)
           /\ notified' = Notify("BROKER_CLOSE", d, pnl)
           /\ fetched' = [ok |-> ok, acts |-> acts, dealId |-> d]
           /\ recGone' = recGone \cup {d}
           /\ bookings' = IF IsSome(pnl) THEN Booked(bookings, d) ELSE bookings
           /\ mpRef' = Detach(mpRef, st.openPositions)
           /\ RecApply(RecRun(miss, recSnap, recIdx + 1, recIds),
                       recSnap, recIds, "unset")
           /\ erred' = { e \in erred : miss'[e] > 0 }
  /\ ret' = "NONE" /\ created' = NoCreate /\ mpAnswer' = NoAnswer /\ preds' = << >>
  /\ threw' = "NONE"
  /\ lastUpd' = NoUpd /\ fired' = "NONE" /\ placed' = NoPlace
  /\ UNCHANGED << cfg, brokerVars, mainVars, tickRest, addCalls, recInstalled,
                  streak, entryVars, csVars, quoteBuf >>

\* -------------------------------------------------------- position manager
ExitPrice(pos, q) == IF pos.direction = "BUY" THEN q.bid ELSE q.ask

slHit(pos, exitPrice) ==
  \/ pos.direction = "BUY"  /\ exitPrice <= pos.sl
  \/ pos.direction = "SELL" /\ exitPrice >= pos.sl

tp1Hit(pos, exitPrice) ==
  \/ pos.direction = "BUY"  /\ exitPrice >= pos.tp1
  \/ pos.direction = "SELL" /\ exitPrice <= pos.tp1

tp2Hit(pos, exitPrice) ==
  \/ pos.direction = "BUY"  /\ exitPrice >= pos.tp2
  \/ pos.direction = "SELL" /\ exitPrice <= pos.tp2

\* Math.floor(pos.size * cfg.PARTIAL_CLOSE_TP1)
CloseSize(pos) == (pos.size * PARTIAL_NUM) \div PARTIAL_DEN

_mathPnl(direction, entry, exitPrice, size) ==
  IF direction = "BUY" THEN (exitPrice - entry) * size
                       ELSE (entry - exitPrice) * size

\* resolvePnlAsync once the history lookup (hist) is in: history, else math
ResolvedPnl(hist, pos, exitPrice, size) ==
  IF IsSome(hist) THEN Val(hist)
  ELSE _mathPnl(pos.direction, pos.entry, exitPrice, size)

\* confirmed && typeof confirmed.profit === 'number'
HasProfit(confirmed) == IsSome(confirmed) /\ IsSome(Val(confirmed))

NewSL(pos, be) == IF be THEN pos.entry ELSE pos.sl

\* the position that takes the place of pos when TP1 is hit without a partial
Tp1Marked(pos, be) == [pos EXCEPT !.tp1Done = TRUE, !.sl = NewSL(pos, be)]

\* mutation: the follower keeps the entry price of the position it follows
Follower_oldentry(pos, newDealId, exitPrice, be) ==
  [pos EXCEPT !.dealId = newDealId, !.size = pos.size - CloseSize(pos),
              !.sl = NewSL(pos, be), !.tp1Done = TRUE]

\* variant: the follower starts with tp1Done cleared
Follower_fresh(pos, newDealId, exitPrice, be) ==
  [pos EXCEPT !.dealId = newDealId, !.size = pos.size - CloseSize(pos),
              !.entry = exitPrice, !.sl = NewSL(pos, be), !.tp1Done = FALSE]

\* the follower of pos after the partial close and the re-entry
Follower(pos, newDealId, exitPrice, be) ==
  [pos EXCEPT !.dealId = newDealId, !.size = pos.size - CloseSize(pos),
              !.entry = exitPrice, !.sl = NewSL(pos, be), !.tp1Done = TRUE]

CloseEvent(branch) == IF branch = "SL" THEN "SL_HIT" ELSE "TP2_HIT"

\* one more await api.getPrice of the price ticker is pending
MoreTails(n) == IF n < MaxTails THEN n + 1 ELSE MaxTails

MpStop(S, pc, i, branch, note, touched, inst) ==
  [st |-> S, pc |-> pc, idx |-> i, branch |-> branch, note |-> note,
   touched |-> touched, installed |-> inst]

RECURSIVE MpRun(_, _, _, _, _, _, _, _)
\* the for-loop of managePositions from position i of the snapshot up to the
\* next await (closePosition, updatePosition) or the end of the loop
MpRun(S, snap, i, q, be, note, touched, inst) ==
  IF i > Len(snap) THEN MpStop(S, "idle", 0, "NONE", note, touched, inst)
  ELSE LET pos == snap[i]
           x   == ExitPrice(pos, q)
       IN  IF slHit(pos, x) THEN MpStop(S, "mp_close", i, "SL", note, touched, inst)
           ELSE IF ~pos.tp1Done /\ tp1Hit(pos, x)
           THEN IF CloseSize(pos) < 1
                THEN IF be THEN MpStop(S, "mp_update", i, "TP1", note, touched, inst)
                     ELSE MpRun(replacePosition(S, pos.dealId, Tp1Marked(pos, be)),
                                snap, i + 1, q, be,
                                Notify("TP1_HIT", pos.dealId, Some(0)),
                                TRUE, inst \cup {pos.dealId})
                ELSE MpStop(S, "mp_close", i, "TP1", note, touched, inst)
           ELSE IF tp2Hit(pos, x) THEN MpStop(S, "mp_close", i, "TP2", note, touched, inst)
           ELSE MpRun(S, snap, i + 1, q, be, note, touched, inst)

\* the dealIds for which the run of the loop that started after position
\* mpIdx of the snapshot entered the TP1 branch: the one whose close or stop
\* update it awaits, and the ones it marked without an await
Tp1Entered(run, snap) ==
  (IF run.pc \in {"mp_close", "mp_update"} /\ run.branch = "TP1"
   THEN {snap[run.idx].dealId} ELSE {})
  \cup { snap[j].dealId : j \in { k \in (mpIdx + 1) .. Len(snap) :
                                     /\ snap[k].dealId \in run.installed
                                     /\ ~snap[k].tp1Done } }

\* the dealIds installed by the run as the re-entry of position mpIdx
Tp1Heirs(run, snap) ==
  IF pcTick = "mp_create"
  THEN run.installed \ { snap[j].dealId : j \in 1 .. Len(snap) }
  ELSE {}

\* the TP1 runs after the run: a follower starts with the count of the
\* position it replaces
Tp1Counted(run, snap) ==
  [d \in DealIds |->
     LET was == IF d \in Tp1Heirs(run, snap) THEN tp1Runs[snap[mpIdx].dealId]
                ELSE tp1Runs[d]
     IN  IF d \in Tp1Entered(run, snap) /\ was < 2 THEN was + 1 ELSE was]

\* the variables after a run of managePositions; when the loop is over the
\* busy flag is cleared (finally) and the price ticker is awaited
MpApply(run, snap, q, confirmed) ==
  /\ st' = run.st
  /\ tp1Runs' = Tp1Counted(run, snap)
  /\ pcTick' = run.pc
  /\ tickBusy' = (run.pc # "idle")
  /\ tickTails' = IF run.pc = "idle" THEN MoreTails(tickTails) ELSE tickTails
  /\ mpIdx' = run.idx
  /\ mpBranch' = run.branch
  /\ mpSnap' = IF run.pc = "idle" THEN << >> ELSE snap
  /\ mpQuote' = IF run.pc = "idle" THEN NoQuote ELSE q
  /\ mpConfirmed' = IF run.pc = "mp_pnl" THEN confirmed ELSE None
  /\ mpRef' = LiveRef
  /\ notified' = run.note
  /\ MpBase /\ fired' = "NONE" /\ UNCHANGED quoteBuf
  /\ recRef' = IF run.touched THEN Detach(recRef, st.openPositions) ELSE recRef
  /\ recInstalled' = IF pcRec # "idle" THEN recInstalled \cup run.installed
                     ELSE recInstalled

\* variant: a failed price fetch forgets the tracked positions
MpEnd_forget ==
  MpStop([st EXCEPT !.openPositions = << >>], "idle", 0, "NONE", NoNotify,
         FALSE, {})

\* managePositions returns before its loop
MpEnd == MpStop(st, "idle", 0, "NONE", NoNotify, FALSE, {})

\* setInterval callback of the tick job, up to await fetchMarket()
TickFire ==
  /\ TimersOn /\ JobStarts(tickBusy)
  /\ IF st.openPositions = << >>
     THEN /\ tickTails' = MoreTails(tickTails)
          /\ UNCHANGED << pcTick, tickBusy, mpRef >>
     ELSE /\ pcTick' = "mp_price" /\ tickBusy' = TRUE /\ mpRef' = LiveRef
          /\ UNCHANGED tickTails
  /\ notified' = NoNotify /\ CoreBase /\ fired' = "tick"
  /\ UNCHANGED quoteBuf
  /\ UNCHANGED << st, cfg, miss, brokerVars, mainVars, mpSnap, mpIdx, mpQuote,
                  mpBranch, mpConfirmed, tp1Runs, recVars, ghostVars >>

\* the price ticker after managePositions: api.getPrice returned (the tick
\* is buffered when DB_URL is set) or threw
TickTailReturn ==
  /\ Alive /\ tickTails > 0
  /\ tickTails' = tickTails - 1
  /\ \/ UNCHANGED quoteBuf
     \/ cfg.db /\ quoteBuf' = IF quoteBuf < MaxQuotes THEN quoteBuf + 1
                                                      ELSE MaxQuotes
  /\ notified' = NoNotify /\ CoreRest
  /\ UNCHANGED << st, cfg, miss, brokerVars, mainVars, pcTick, tickBusy, mpRef,
                  mpSnap, mpIdx, mpQuote, mpBranch, mpConfirmed, tp1Runs,
                  recVars, ghostVars >>

\* fetchMarket() returned or threw
MpPriceReturn ==
  /\ Alive /\ pcTick = "mp_price"
  /\ \/ /\ MpApply(MpEnd, << >>, NoQuote, None)   \* threw, or not tradeable
        /\ threw' \in { "price", "NONE" }
     \/ \E q \in Quotes :
          LET snap == Deref(mpRef, st)
          IN  /\ MpApply(MpRun(st, snap, 1, q, cfg.be, NoNotify, FALSE, {}),
                         snap, q, None)
              /\ threw' = "NONE"
  /\ mpAnswer' = NoAnswer
  /\ UNCHANGED << cfg, miss, brokerVars, mainVars, recRest, addCalls,
                  recGhost >>

\* after resolvePnlAsync: book, then remove (SL, TP2) or re-enter (TP1)
MpAfterPnl(S, snap, i, branch, pnl, q, be) ==
  LET pos == snap[i]
      S1  == updatePnL(S, pnl, pnl < 0)
  IN  IF branch = "TP1"
      THEN IF pos.size - CloseSize(pos) >= 1
           THEN MpStop(S1, "mp_create", i, branch,
                       Notify("TP1_HIT", pos.dealId, Some(pnl)), FALSE, {})
           ELSE MpRun(removePosition(S1, pos.dealId), snap, i + 1, q, be,
                      Notify("TP1_HIT", pos.dealId, Some(pnl)), TRUE, {})
      ELSE MpRun(removePosition(S1, pos.dealId), snap, i + 1, q, be,
                 Notify(CloseEvent(branch), pos.dealId, Some(pnl)), TRUE, {})

\* after await api.closePosition: confirmed is None when it threw
MpAfterClose(S, snap, i, branch, confirmed, q, be, note) ==
  LET pos == snap[i] IN
  IF branch = "TP1" /\ ~IsSome(confirmed)
  THEN MpRun(MarkTp1Done(S, pos.dealId), snap, i + 1, q, be, note, FALSE, {})
  ELSE IF HasProfit(confirmed)
  THEN MpAfterPnl(S, snap, i, branch, Val(Val(confirmed)), q, be)
  ELSE MpStop(S, "mp_pnl", i, branch, note, FALSE, {})

\* api.closePosition(pos.dealId) returned or threw (SL, TP1 partial, TP2)
MpCloseReturn ==
  /\ Alive /\ pcTick = "mp_close"
  /\ LET d == mpSnap[mpIdx].dealId IN
     \E sc \in CloseScripts :
     \E prof \in (IF closePosition(sc).ok THEN ConfirmProfits ELSE {None}) :
       /\ d \notin remote => sc = ScError
       /\ LET done      == d \in remote /\ Executed(sc)
              confirmed == IF closePosition(sc).ok THEN Some(prof) ELSE None
          IN  /\ remote' = IF done THEN remote \ {d} ELSE remote
              /\ mpAnswer' = [op |-> "close", ok |-> closePosition(sc).ok,
                              dealId |-> None]
              /\ threw' = "NONE"
              /\ bookings' = IF HasProfit(confirmed) THEN Booked(bookings, d)
                                                     ELSE bookings
              /\ MpApply(MpAfterClose(st, mpSnap, mpIdx, mpBranch, confirmed,
                                      mpQuote, cfg.be, NoNotify),
                         mpSnap, mpQuote, confirmed)
  /\ UNCHANGED << cfg, miss, nextDeal, dealCap, gateRun, boot, feed, models, confirm, session, mainVars, recRest,
                  addCalls, streak, erred, recGone >>

\* api.recoverPnlFromHistory returned (it never throws)
MpPnlReturn ==
  /\ Alive /\ pcTick = "mp_pnl"
  /\ \E ok \in BOOLEAN, acts \in Activities(mpSnap[mpIdx].dealId,
                                              mpSnap[mpIdx].dealId \in remote) :
       LET pos  == mpSnap[mpIdx]
           hist == recoverPnlFromHistory(ok, acts, pos.dealId)
           size == IF mpBranch = "TP1" THEN CloseSize(pos) ELSE pos.size
           pnl  == ResolvedPnl(hist, pos, ExitPrice(pos, mpQuote), size)
       IN  /\ MpApply(MpAfterPnl(st, mpSnap, mpIdx, mpBranch, pnl, mpQuote,
                                  cfg.be),
                       mpSnap, mpQuote, mpConfirmed)
           /\ bookings' = Booked(bookings, pos.dealId)
  /\ mpAnswer' = NoAnswer /\ threw' = "NONE"
  /\ UNCHANGED << cfg, miss, brokerVars, mainVars, recRest, addCalls,
                  streak, erred, recGone >>

\* api.createPosition of the remainder returned or threw (TP1 partial)
MpCreateReturn ==
  /\ Alive /\ pcTick = "mp_create"
  /\ \E sc \in Scripts :
       LET pos  == mpSnap[mpIdx]
           res  == createPosition(sc, nextDeal)
           x    == ExitPrice(pos, mpQuote)
       IN  /\ Executed(sc) => nextDeal <= dealCap
           /\ remote' = IF Executed(sc) THEN remote \cup {nextDeal} ELSE remote
           /\ nextDeal' = IF Executed(sc) THEN nextDeal + 1 ELSE nextDeal
           /\ mpAnswer' = [op |-> "create", ok |-> res.ok, dealId |-> res.dealId]
           /\ threw' = "NONE"
           /\ IF res.ok
              THEN MpApply(MpRun(replacePosition(st, pos.dealId,
                                    Follower(pos, Val(res.dealId), x, cfg.be)),
                                 mpSnap, mpIdx + 1, mpQuote, cfg.be, NoNotify,
                                 TRUE, {Val(res.dealId)}),
                           mpSnap, mpQuote, None)
              ELSE MpApply(MpRun(MarkTp1Done(st, pos.dealId), mpSnap, mpIdx + 1,
                                 mpQuote, cfg.be, NoNotify, FALSE, {}),
                           mpSnap, mpQuote, None)
  /\ UNCHANGED << cfg, miss, dealCap, gateRun, boot, feed, models, confirm, session, mainVars, recRest, addCalls,
                  recGhost >>

\* api.updatePosition (stop to breakeven) returned or threw: either way the
\* position is replaced by its tp1Done copy
MpUpdateReturn ==
  /\ Alive /\ pcTick = "mp_update"
  /\ LET pos == mpSnap[mpIdx] IN
       MpApply(MpRun(replacePosition(st, pos.dealId, Tp1Marked(pos, cfg.be)),
                     mpSnap, mpIdx + 1, mpQuote, cfg.be,
                     Notify("TP1_HIT", pos.dealId, Some(0)), TRUE, {pos.dealId}),
               mpSnap, mpQuote, None)
  /\ mpAnswer' = NoAnswer /\ threw' = "NONE"
  /\ UNCHANGED << cfg, miss, brokerVars, mainVars, recRest, addCalls,
                  recGhost >>

\* ------------------------------------------------------------ candle jobs
SL_BUFFER_ATR == 10     \* 0.10, in hundredths
SCALP_TP1_ATR == 80     \* 0.80
SCALP_TP2_ATR == 160    \* 1.60

\* what the candle store holds when a handler runs: ATR, last closed bar
Atrs == { 10 }
Trends == { "NONE", "UP", "DOWN" }
\* GET /markets/{epic} as the candle handlers see it
EntryQuotes == { [bid |-> 100, ask |-> 101], [bid |-> 100, ask |-> 105] }

\* inputs are enumerated where the handler reads them: the pullback bar test
\* when there is no setup yet, the quote when it goes on to placeOrder
PullbackInputs(setup) == IF setup.active THEN { FALSE } ELSE BOOLEAN
\* the feature snapshot: its value is enumerated in the runs that load a
\* model
FeatureInputs == IF models = NoModels THEN { Some(1) } ELSE Features
QuoteInputs(setup, verdict) ==
  IF setup.active /\ verdict = "EXEC" THEN EntryQuotes
  ELSE { CHOOSE q \in EntryQuotes : TRUE }

\* the outcome of the candle-based filters of a handler, in the order the code
\* applies them: spread gate, chop filter, setup invalidation (EMA alignment,
\* mean break, expiry; the H1 macro and M15 strength gates act like expiry),
\* break of structure, entry gates (RSI, ATR ratio, body, M1, ML)
VerdictsM5 == { "SKIP_SPREAD", "SKIP_CHOP", "SKIP_EMA_ALIGNMENT", "SKIP_MEAN_BREAK",
                "SKIP_EXPIRED", "HOLD", "SKIP_RSI", "EXEC" }
VerdictsH1 == { "SKIP_SPREAD", "SKIP_CHOP", "SKIP_EXPIRED", "HOLD", "EXEC" }

Setup(direction, extreme) ==
  [active |-> TRUE, direction |-> direction, pullbackExtreme |-> extreme,
   touchPrice |-> extreme]

\* createSetup: a setup in the direction of the trend on a valid pullback
\* bar, { active: false } otherwise
createSetup(trend, bar, pullback) ==
  IF ~pullback THEN NoSetup
  ELSE IF trend = "UP" THEN Setup("BUY", bar.low)
  ELSE IF trend = "DOWN" THEN Setup("SELL", bar.high)
  ELSE NoSetup

Min(a, b) == IF a < b THEN a ELSE b
Max(a, b) == IF a > b THEN a ELSE b

\* mutation: the extreme follows the latest bar
updateSetupExtreme_last(setup, bar) ==
  IF setup.direction = "BUY"
  THEN [setup EXCEPT !.pullbackExtreme = bar.low]
  ELSE [setup EXCEPT !.pullbackExtreme = bar.high]

\* setup.pullbackExtreme = Math.min(prev, bar.low) / Math.max(prev, bar.high)
updateSetupExtreme(setup, bar) ==
  IF setup.direction = "BUY"
  THEN [setup EXCEPT !.pullbackExtreme = Min(@, bar.low)]
  ELSE [setup EXCEPT !.pullbackExtreme = Max(@, bar.high)]

computeSLTP(mode, setup, entryPrice, atrVal) ==
  LET buffer == (SL_BUFFER_ATR * atrVal) \div 100
      sl == IF setup.direction = "BUY" THEN setup.pullbackExtreme - buffer
                                       ELSE setup.pullbackExtreme + buffer
      R  == IF setup.direction = "BUY" THEN entryPrice - sl ELSE sl - entryPrice
      d1 == IF mode = "SCALP" THEN (SCALP_TP1_ATR * atrVal) \div 100 ELSE TP1_R * R
      d2 == IF mode = "SCALP" THEN (SCALP_TP2_ATR * atrVal) \div 100
                              ELSE TP2_R_SWING * R
  IN  IF setup.direction = "BUY"
      THEN [sl |-> sl, tp1 |-> entryPrice + d1, tp2 |-> entryPrice + d2]
      ELSE [sl |-> sl, tp1 |-> entryPrice - d1, tp2 |-> entryPrice - d2]

\* placeOrder is called: its entry price, the TP1 level it computes and the
\* spread
PlaceArgs(mode, setup, q, atrVal) ==
  LET entry == IF setup.direction = "BUY" THEN q.ask ELSE q.bid
  IN  [called |-> TRUE, mode |-> mode, entry |-> entry,
       tp1 |-> computeSLTP(mode, setup, entry, atrVal).tp1,
       spread |-> q.ask - q.bid]

\* placeOrder up to await api.createPosition: the position it is about to
\* open, or << >> when the TP1 distance is below twice the spread
OrderFor(mode, setup, q, atrVal) ==
  LET size   == IF mode = "SCALP" THEN SCALP_SIZE_UNITS ELSE SWING_SIZE_UNITS
      entry  == IF setup.direction = "BUY" THEN q.ask ELSE q.bid
      lv     == computeSLTP(mode, setup, entry, atrVal)
      spread == q.ask - q.bid
  IN  IF Abs(lv.tp1 - entry) < 2 * spread THEN << >>
      ELSE << [mode |-> mode, direction |-> setup.direction, size |-> size,
               entry |-> entry, sl |-> lv.sl, tp1 |-> lv.tp1, tp2 |-> lv.tp2,
               tp1Done |-> FALSE, dealId |-> 0] >>

\* the body of onM5Close / onH1Close after fetchMarket, up to placeOrder:
\* the signal action, the setup it leaves in state.js, and whether it goes on
\* to placeOrder (with the setup object it holds)
Decide(setup, trend, verdict, bar, pullback) ==
  LET out(a, s, go) == [action |-> a, setup |-> s, exec |-> go, held |-> s]
      expected == IF setup.direction = "BUY" THEN "UP" ELSE "DOWN"
      upd == updateSetupExtreme(setup, bar)
  IN  IF verdict = "SKIP_SPREAD" THEN out("SKIP_SPREAD", setup, FALSE)
      ELSE IF trend = "NONE" THEN out("SKIP_TREND", NoSetup, FALSE)
      ELSE IF verdict = "SKIP_CHOP" THEN out("SKIP_CHOP", NoSetup, FALSE)
      ELSE IF setup.active
      THEN IF trend # expected THEN out("SKIP_TREND_FLIP", NoSetup, FALSE)
           ELSE IF verdict \in {"SKIP_EMA_ALIGNMENT", "SKIP_MEAN_BREAK", "SKIP_EXPIRED"}
           THEN out(verdict, NoSetup, FALSE)
           ELSE IF verdict = "HOLD" THEN out("HOLD", upd, FALSE)
           ELSE IF verdict = "SKIP_RSI" THEN out("SKIP_RSI", NoSetup, FALSE)
           ELSE out("EXEC", upd, TRUE)
      ELSE out("SETUP_FORMING", createSetup(trend, bar, pullback), FALSE)

\* a step of a candle job or of the midnight reset leaves these alone
SignalRest ==
  /\ lastUpd' = NoUpd /\ mpAnswer' = NoAnswer
  /\ UNCHANGED << cfg, miss, dealCap, gateRun, boot, feed, models, confirm, session, mainVars, tickVars, recVars,
                  recGhost, fetched, csVars, quoteBuf >>
SignalBase == SignalRest /\ threw' = "NONE"
EntryRest == SignalRest /\ preds' = << >>
EntryBase == SignalBase /\ preds' = << >>
EntryFrame == EntryBase /\ fired' = "NONE" /\ placed' = NoPlace

\* signalsRepo.insertSignal(sig) is called: one more signal record
EmitSignal(n) == n + 1

\* the finally block of onM5Close starts: await insertSignal
M5Finally(action) ==
  /\ pcM5' = "m5_signal" /\ sigAction' = action /\ sigM5' = EmitSignal(sigM5)
  /\ m5Order' = << >>
  /\ UNCHANGED m5Busy

\* setInterval callback of the M5 job, up to await cs.update('M5')
M5Fire ==
  /\ TimersOn /\ JobStarts(m5Busy)
  /\ m5Busy' = TRUE /\ pcM5' = "m5_update"
  /\ notified' = NoNotify /\ ret' = "NONE" /\ created' = NoCreate
  /\ EntryBase /\ fired' = "m5" /\ placed' = NoPlace
  /\ UNCHANGED << st, remote, nextDeal, m5Order, sigAction, sigMl, h1Vars,
                  pcReset, entryGhost, addCalls, recInstalled >>

\* cs.update('M5') returned (a new closed candle or not) or threw; on a new
\* close onM5Close runs up to await fetchMarket()
M5UpdateReturn ==
  /\ Alive /\ pcM5 = "m5_update"
  /\ \/ /\ pcM5' = "idle" /\ m5Busy' = FALSE
        /\ threw' \in { "candles", "NONE" }
        /\ UNCHANGED << m5Order, sigAction, sigMl, sigM5 >>
     \/ /\ sigMl' = NoSigMl /\ threw' = "NONE"
        /\ IF ~riskOK(st)
           THEN /\ pcM5' = "m5_signal" /\ sigAction' = "SKIP_RISK"
                /\ sigM5' = EmitSignal(0)
                /\ UNCHANGED << m5Busy, m5Order >>
           ELSE /\ pcM5' = "m5_price" /\ sigAction' = "HOLD" /\ sigM5' = 0
                /\ UNCHANGED << m5Busy, m5Order >>
  /\ notified' = NoNotify /\ ret' = "NONE" /\ created' = NoCreate
  /\ EntryRest /\ fired' = "NONE" /\ placed' = NoPlace
  /\ UNCHANGED << st, remote, nextDeal, h1Vars, pcReset, sigH1,
                  addCalls, recInstalled >>

\* fetchMarket() returned or threw: the gates of onM5Close, up to the finally
\* block or to await api.createPosition inside placeOrder
\* (mods: the models mlModel.js holds)
M5PriceReturnWith(mods) ==
  /\ Alive /\ pcM5 = "m5_price"
  /\ \/ /\ \E a \in {"SKIP_MARKET_ERR", "SKIP_MARKET_CLOSED"} :
             /\ M5Finally(a)
             /\ threw' = IF a = "SKIP_MARKET_ERR" THEN "price" ELSE "NONE"
        /\ placed' = NoPlace
        /\ UNCHANGED << st, sigMl >>
     \/ \E trend \in Trends, verdict \in VerdictsM5, atrVal \in Atrs,
           bar \in feed, features \in FeatureInputs :
        \E pullback \in PullbackInputs(st.setupScalp),
           q \in QuoteInputs(st.setupScalp, verdict) :
          LET d       == Decide(st.setupScalp, trend, verdict, bar, pullback)
              order   == OrderFor("SCALP", d.held, q, atrVal)
              ml      == IF d.exec THEN score(mods, features) ELSE None
              blocked == IsSome(ml) /\ mlBlocked(d.held.direction, Val(ml).score)
          IN  /\ threw' = "NONE"
              /\ placed' = IF d.exec /\ ~blocked
                           THEN PlaceArgs("SCALP", d.held, q, atrVal)
                           ELSE NoPlace
              /\ sigMl' = [features |-> features, model |-> ml,
                           candidate |-> d.action \in {"SKIP_RSI", "EXEC"}]
              /\ IF ~d.exec
                 THEN /\ st' = [st EXCEPT !.setupScalp = d.setup]
                      /\ M5Finally(d.action)
                 ELSE IF blocked
                 THEN /\ st' = [st EXCEPT !.setupScalp = NoSetup]
                      /\ M5Finally("SKIP_ML")
                 ELSE IF order = << >>
                 THEN /\ st' = [st EXCEPT !.setupScalp = NoSetup]
                      /\ M5Finally(d.action)
                 ELSE /\ st' = [st EXCEPT !.setupScalp = d.setup]
                      /\ pcM5' = "m5_create" /\ m5Order' = order
                      /\ sigAction' = d.action
                      /\ UNCHANGED << m5Busy, sigM5 >>
  /\ notified' = NoNotify /\ ret' = "NONE" /\ created' = NoCreate
  /\ EntryRest /\ fired' = "NONE"
  /\ UNCHANGED << remote, nextDeal, h1Vars, pcReset, sigH1,
                  addCalls, recInstalled >>

M5PriceReturn == M5PriceReturnWith(models)

\* placeOrder after await api.createPosition: the position is added under the
\* dealId of the confirmation; a throw leaves state.js as it is
PlaceOrderReturn(order, res, mode) ==
  IF res.ok
  THEN LET pos == [order EXCEPT !.dealId = Val(res.dealId)]
           S1  == addPosition(st, pos)
       IN  /\ st' = IF mode = "SCALP" THEN [S1 EXCEPT !.setupScalp = NoSetup]
                                      ELSE [S1 EXCEPT !.setupSwing = NoSetup]
           /\ addCalls' = addCalls + 1
           /\ recInstalled' = IF pcRec # "idle"
                              THEN recInstalled \cup {pos.dealId} ELSE recInstalled
           /\ notified' = Notify("TRADE_OPENED", pos.dealId, None)
  ELSE /\ UNCHANGED << st, addCalls, recInstalled >>
       /\ notified' = NoNotify

\* the broker's side of POST /positions
BrokerOpen(sc) ==
  /\ Executed(sc) => nextDeal <= dealCap
  /\ remote' = IF Executed(sc) THEN remote \cup {nextDeal} ELSE remote
  /\ nextDeal' = IF Executed(sc) THEN nextDeal + 1 ELSE nextDeal

\* api.createPosition of the scalp order returned or threw
M5CreateReturn ==
  /\ Alive /\ pcM5 = "m5_create"
  /\ \E sc \in Scripts :
       LET res == createPosition(sc, nextDeal)
       IN  /\ BrokerOpen(sc)
           /\ created' = res
           /\ PlaceOrderReturn(m5Order[1], res, "SCALP")
  /\ M5Finally(sigAction)
  /\ ret' = "NONE"
  /\ EntryFrame
  /\ UNCHANGED << sigMl, h1Vars, pcReset, sigH1 >>

\* the insertPrediction calls of the finally block of onM5Close: the row
\* of the champion when the ML gate was evaluated, the shadow row of the
\* challenger when one is loaded (notify: telegram.notifyPrediction is
\* called with the challenger's score)
Predictions(mods, sig, action) ==
  LET shadow == scoreChallenger(mods, sig.features)
  IN  (IF IsSome(sig.model)
       THEN << [modelId |-> Val(sig.model).version, pWin |-> Val(sig.model).score,
                acted |-> action = "EXEC", shadow |-> FALSE, notify |-> FALSE] >>
       ELSE << >>)
      \o
      (IF IsSome(shadow)
       THEN << [modelId |-> Val(shadow).version, pWin |-> Val(shadow).score,
                acted |-> FALSE, shadow |-> TRUE,
                notify |-> ~IsSome(sig.model) /\ sig.candidate] >>
       ELSE << >>)

\* insertSignal returned (or its rejection was caught): what onM5Close does
\* to everything but the prediction rows before it returns
M5SignalTrade ==
  /\ Alive /\ pcM5 = "m5_signal"
  /\ pcM5' = "idle" /\ m5Busy' = FALSE /\ sigM5' = 0
  /\ ret' = "onM5Close" /\ sigAction' = "NONE" /\ sigMl' = NoSigMl
  /\ notified' = NoNotify /\ created' = NoCreate
  /\ SignalBase /\ fired' = "NONE" /\ placed' = NoPlace
  /\ UNCHANGED << st, remote, nextDeal, m5Order, h1Vars, pcReset,
                  sigH1, addCalls, recInstalled >>

\* the prediction rows written when insertSignal gave a signalId (saved)
M5SignalRows(mods, saved) ==
  IF saved THEN Predictions(mods, sigMl, sigAction) ELSE << >>

\* what insertSignal can give: no signalId when the database is disabled or
\* the insert failed
SignalSaved == IF cfg.db THEN BOOLEAN ELSE { FALSE }

M5SignalReturn ==
  /\ M5SignalTrade
  /\ \E saved \in SignalSaved : preds' = M5SignalRows(models, saved)

\* onH1Close returns (it has no finally block and writes no signal)
H1Return ==
  /\ pcH1' = "idle" /\ h1Busy' = FALSE /\ h1Order' = << >>
  /\ ret' = "onH1Close"

\* setInterval callback of the H1 job, up to await cs.update('H1')
H1Fire ==
  /\ TimersOn /\ JobStarts(h1Busy)
  /\ h1Busy' = TRUE /\ pcH1' = "h1_update"
  /\ notified' = NoNotify /\ ret' = "NONE" /\ created' = NoCreate
  /\ EntryBase /\ fired' = "h1" /\ placed' = NoPlace
  /\ UNCHANGED << st, remote, nextDeal, m5Vars, h1Order, pcReset, entryGhost,
                  addCalls, recInstalled >>

\* cs.update('H1') returned or threw; on a new close with swing mode on
\* onH1Close runs up to await fetchMarket()
H1UpdateReturn ==
  /\ Alive /\ pcH1 = "h1_update"
  /\ \/ /\ pcH1' = "idle" /\ h1Busy' = FALSE /\ ret' = "NONE"
        /\ threw' \in { "candles", "NONE" }
        /\ UNCHANGED << h1Order, sigH1 >>
     \/ /\ cfg.swing
        /\ sigH1' = 0 /\ threw' = "NONE"
        /\ IF ~riskOK(st) THEN H1Return
           ELSE /\ pcH1' = "h1_price" /\ ret' = "NONE"
                /\ UNCHANGED << h1Busy, h1Order >>
  /\ notified' = NoNotify /\ created' = NoCreate
  /\ EntryRest /\ fired' = "NONE" /\ placed' = NoPlace
  /\ UNCHANGED << st, remote, nextDeal, m5Vars, pcReset, sigM5,
                  addCalls, recInstalled >>

\* fetchMarket() returned or threw: the gates of onH1Close, up to its return
\* or to await api.createPosition inside placeOrder
H1PriceReturn ==
  /\ Alive /\ pcH1 = "h1_price"
  /\ \/ /\ H1Return /\ placed' = NoPlace /\ UNCHANGED st
        /\ threw' \in { "price", "NONE" }      \* threw, or not tradeable
     \/ \E trend \in Trends, verdict \in VerdictsH1, atrVal \in Atrs,
           bar \in feed :
        \E pullback \in PullbackInputs(st.setupSwing),
           q \in QuoteInputs(st.setupSwing, verdict) :
          LET d     == Decide(st.setupSwing, trend, verdict, bar, pullback)
              order == OrderFor("SWING", d.held, q, atrVal)
          IN  /\ threw' = "NONE"
              /\ placed' = IF d.exec THEN PlaceArgs("SWING", d.held, q, atrVal)
                                      ELSE NoPlace
              /\ IF ~d.exec
                 THEN /\ st' = [st EXCEPT !.setupSwing = d.setup]
                      /\ H1Return
                 ELSE IF order = << >>
                 THEN /\ st' = [st EXCEPT !.setupSwing = NoSetup]
                      /\ H1Return
                 ELSE /\ st' = [st EXCEPT !.setupSwing = d.setup]
                      /\ pcH1' = "h1_create" /\ h1Order' = order /\ ret' = "NONE"
                      /\ UNCHANGED h1Busy
  /\ notified' = NoNotify /\ created' = NoCreate
  /\ EntryRest /\ fired' = "NONE"
  /\ UNCHANGED << remote, nextDeal, m5Vars, pcReset, entryGhost,
                  addCalls, recInstalled >>

\* api.createPosition of the swing order returned or threw
H1CreateReturn ==
  /\ Alive /\ pcH1 = "h1_create"
  /\ \E sc \in Scripts :
       LET res == createPosition(sc, nextDeal)
       IN  /\ BrokerOpen(sc)
           /\ created' = res
           /\ PlaceOrderReturn(h1Order[1], res, "SWING")
  /\ H1Return
  /\ EntryFrame
  /\ UNCHANGED << m5Vars, pcReset, sigM5, sigH1 >>

\* ------------------------------------------- candle store: load and polls
\* time passes
ClockTick ==
  /\ now < MaxClock
  /\ now' = now + 1
  /\ lastUpd' = NoUpd /\ fired' = "NONE" /\ placed' = NoPlace
  /\ notified' = NoNotify /\ ret' = "NONE" /\ created' = NoCreate
  /\ fetched' = NoFetch /\ mpAnswer' = NoAnswer /\ preds' = << >>
  /\ threw' = "NONE"
  /\ UNCHANGED << st, cfg, miss, brokerVars, mainVars, tickVars, recVars,
                  ghostVars, entryVars, toLoad, store, lastClosedTime,
                  storedAt, evals, loaded, quoteBuf >>

\* loadHistory in main(): api.getCandles of the next timeframe returned
\* (fetchFull seeds the store) or threw (main().catch: gracefulShutdown, which
\* returns at once when a signal has started it already, then process.exit)
loadHistory ==
  /\ Booting /\ toLoad # << >>
  /\ LET tf == Head(toLoad)
     IN  \/ \E prices \in Prices(tf, now, TF_HISTORY[tf] + 1) :
              LET bars == getCandles(prices)
                  r    == fetchFull(tf, [store |-> store[tf],
                                         last |-> lastClosedTime[tf]], bars, now)
              IN  /\ store' = [store EXCEPT ![tf] = r.store]
                  /\ lastClosedTime' = [lastClosedTime EXCEPT ![tf] = r.last]
                  /\ storedAt' = [storedAt EXCEPT
                                    ![tf] = [i \in 1 .. Len(r.store) |-> now]]
                  /\ loaded' = [loaded EXCEPT ![tf] = [bars |-> bars, at |-> now]]
                  /\ toLoad' = Tail(toLoad)
                  /\ UNCHANGED mainVars
         \/ /\ shutting' = TRUE
            /\ pcMain' = IF shutting THEN "exited" ELSE "stopping"
            /\ UNCHANGED << toLoad, store, lastClosedTime, storedAt, loaded >>
  /\ lastUpd' = NoUpd /\ fired' = "NONE" /\ placed' = NoPlace
  /\ notified' = NoNotify /\ ret' = "NONE" /\ created' = NoCreate
  /\ fetched' = NoFetch /\ mpAnswer' = NoAnswer /\ preds' = << >>
  /\ threw' = "NONE"
  /\ UNCHANGED << st, cfg, miss, brokerVars, tickVars, recVars,
                  ghostVars, entryVars, now, evals, quoteBuf >>

\* a step of a candle job seen from the candle store
CandleFrame ==
  /\ notified' = NoNotify /\ ret' = "NONE" /\ created' = NoCreate
  /\ mpAnswer' = NoAnswer /\ preds' = << >>
  /\ fired' = "NONE" /\ placed' = NoPlace
  /\ UNCHANGED << st, cfg, miss, brokerVars, mainVars, tickVars, recVars,
                  ghostVars, fetched, pcReset, entryGhost, m5Order, sigAction, sigMl,
                  h1Order, now, toLoad, loaded, quoteBuf >>

\* variant: no finally block, a throw leaves the busy flag set
CandleReturn_nofinally(tf, runsHandler, handlerPc, pcNew, busyNew) ==
  \/ /\ pcNew = "idle" /\ busyNew = TRUE
     /\ lastUpd' = NoUpd /\ threw' = "candles"
     /\ UNCHANGED << store, lastClosedTime, storedAt, evals >>
  \/ \E prices \in Prices(tf, now, INCREMENTAL_BARS + 1) :
       LET bars == getCandles(prices)
           r    == update(tf, [store |-> store[tf],
                               last |-> lastClosedTime[tf]], bars, now)
       IN  /\ store' = [store EXCEPT ![tf] = r.store]
           /\ lastClosedTime' = [lastClosedTime EXCEPT ![tf] = r.last]
           /\ storedAt' = [storedAt EXCEPT ![tf] =
                 IF r.ret
                 THEN LastN(@ \o [i \in 1 .. Len(r.added) |-> now],
                            TF_HISTORY[tf])
                 ELSE @]
           /\ lastUpd' = [tf |-> tf, bars |-> bars, ret |-> r.ret,
                          added |-> r.added]
           /\ threw' = "NONE"
           /\ IF r.ret /\ runsHandler
              THEN /\ pcNew = handlerPc /\ busyNew = TRUE
                   /\ evals' = [evals EXCEPT
                                  ![tf] = Append(@, r.store[Len(r.store)].time)]
              ELSE /\ pcNew = "idle" /\ busyNew = FALSE
                   /\ UNCHANGED evals

\* await cs.update(tf) is over in the callback of a candle job: getCandles
\* threw (catch, finally) or update ran; on a new close, and when the job has
\* a handler to run, the handler is called and reads the store
CandleReturn(tf, runsHandler, handlerPc, pcNew, busyNew) ==
  \/ /\ pcNew = "idle" /\ busyNew = FALSE
     /\ lastUpd' = NoUpd /\ threw' = "candles"
     /\ UNCHANGED << store, lastClosedTime, storedAt, evals >>
  \/ \E prices \in Prices(tf, now, INCREMENTAL_BARS + 1) :
       LET bars == getCandles(prices)
           r    == update(tf, [store |-> store[tf],
                               last |-> lastClosedTime[tf]], bars, now)
       IN  /\ store' = [store EXCEPT ![tf] = r.store]
           /\ lastClosedTime' = [lastClosedTime EXCEPT ![tf] = r.last]
           /\ storedAt' = [storedAt EXCEPT ![tf] =
                 IF r.ret
                 THEN LastN(@ \o [i \in 1 .. Len(r.added) |-> now],
                            TF_HISTORY[tf])
                 ELSE @]
           /\ lastUpd' = [tf |-> tf, bars |-> bars, ret |-> r.ret,
                          added |-> r.added]
           /\ threw' = "NONE"
           /\ IF r.ret /\ runsHandler
              THEN /\ pcNew = handlerPc /\ busyNew = TRUE
                   /\ evals' = [evals EXCEPT
                                  ![tf] = Append(@, r.store[Len(r.store)].time)]
              ELSE /\ pcNew = "idle" /\ busyNew = FALSE
                   /\ UNCHANGED evals

\* the M5 job: const newClose = await cs.update('M5');
\* if (newClose) await strategy.onM5Close()
M5CandleReturn ==
  /\ Alive /\ pcM5 = "m5_update"
  /\ CandleReturn("M5", TRUE, "m5_handler", pcM5', m5Busy')
  /\ CandleFrame
  /\ UNCHANGED << pcH1, h1Busy >>

\* strategy.onM5Close() returned or threw: finally m5Busy = false
M5HandlerReturn ==
  /\ Alive /\ pcM5 = "m5_handler"
  /\ pcM5' = "idle" /\ m5Busy' = FALSE
  /\ lastUpd' = NoUpd /\ threw' = "NONE"
  /\ CandleFrame
  /\ UNCHANGED << pcH1, h1Busy, store, lastClosedTime, storedAt, evals >>

\* the H1 job: if (newClose && cfg.swingEnabled) await strategy.onH1Close()
H1CandleReturn ==
  /\ Alive /\ pcH1 = "h1_update"
  /\ CandleReturn("H1", cfg.swing, "h1_handler", pcH1', h1Busy')
  /\ CandleFrame
  /\ UNCHANGED << pcM5, m5Busy >>

H1HandlerReturn ==
  /\ Alive /\ pcH1 = "h1_handler"
  /\ pcH1' = "idle" /\ h1Busy' = FALSE
  /\ lastUpd' = NoUpd /\ threw' = "NONE"
  /\ CandleFrame
  /\ UNCHANGED << pcM5, m5Busy, store, lastClosedTime, storedAt, evals >>

\* -------------------------------------------------------------- quote flush
\* setInterval callback of the quote flush job (it exists when DB_URL is
\* set): the buffer is emptied by splice and handed to insertQuotesBatch
FlushFire ==
  /\ TimersOn /\ cfg.db
  /\ JobStarts(quoteBuf = 0)
  /\ quoteBuf' = 0
  /\ notified' = NoNotify /\ CoreBase /\ fired' = "flush"
  /\ UNCHANGED << st, cfg, miss, brokerVars, mainVars, tickVars, recVars,
                  ghostVars >>

\* ----------------------------------------------------------- midnight reset
\* the setTimeout of scheduleMidnightReset fires (it is not among the timers
\* gracefulShutdown clears), up to await api.getAccount()
ResetFire ==
  /\ Alive /\ pcReset = "armed"
  /\ pcReset' = IF shutting THEN "off" ELSE "acct"
  /\ notified' = NoNotify /\ ret' = "NONE" /\ created' = NoCreate
  /\ placed' = NoPlace
  /\ EntryBase /\ fired' = IF shutting THEN "NONE" ELSE "reset"
  /\ UNCHANGED << st, remote, nextDeal, m5Vars, h1Vars, entryGhost,
                  addCalls, recInstalled >>

\* api.getAccount() returned or threw: dailyReset, schedule the next one
ResetAcctReturn ==
  /\ Alive /\ pcReset = "acct"
  /\ st' = dailyReset(st)
  /\ addCalls' = 0
  /\ pcReset' = "armed"
  /\ notified' = NoNotify /\ ret' = "NONE" /\ created' = NoCreate
  /\ EntryFrame
  /\ UNCHANGED << remote, nextDeal, m5Vars, h1Vars, entryGhost, recInstalled >>

\* ---------------------------------------------------------------- shutdown
\* SIGINT / SIGTERM: gracefulShutdown up to its first await: the flag is set
\* and the timers created so far are cleared
Shutdown ==
  /\ pcMain \in {"boot", "running"} /\ ~shutting
  /\ shutting' = TRUE
  /\ pcMain' = IF pcMain = "boot" THEN "boot_stopping" ELSE "stopping"
  /\ notified' = NoNotify /\ CoreStep
  /\ UNCHANGED << st, cfg, miss, brokerVars, tickVars, recVars,
                  ghostVars >>

\* notifyBotStopped and destroySession are over: process.exit(0) ends every
\* callback still in flight
Exit ==
  /\ pcMain \in {"stopping", "boot_stopping", "late"}
  /\ pcMain' = "exited"
  /\ pcTick' = "idle" /\ tickBusy' = FALSE /\ tickTails' = 0
  /\ mpRef' = LiveRef /\ mpSnap' = << >> /\ mpIdx' = 0 /\ mpQuote' = NoQuote
  /\ mpBranch' = "NONE" /\ mpConfirmed' = None
  /\ pcRec' = "idle" /\ reconcBusy' = FALSE /\ recRef' = LiveRef
  /\ recSnap' = << >> /\ recIdx' = 0 /\ recIds' = {} /\ recMisses' = 0
  /\ recStillOpen' = "unset"
  /\ pcM5' = "idle" /\ m5Busy' = FALSE /\ m5Order' = << >>
  /\ pcH1' = "idle" /\ h1Busy' = FALSE /\ h1Order' = << >>
  /\ pcReset' = "off" /\ sigAction' = "NONE" /\ sigMl' = NoSigMl
  /\ notified' = NoNotify /\ ret' = "NONE" /\ created' = NoCreate
  /\ fetched' = NoFetch /\ mpAnswer' = NoAnswer /\ preds' = << >>
  /\ threw' = "NONE"
  /\ sigM5' = 0 /\ lastUpd' = NoUpd /\ fired' = "NONE" /\ placed' = NoPlace
  /\ UNCHANGED << st, cfg, miss, brokerVars, shutting, ghostVars, sigH1, csVars,
                  quoteBuf, tp1Runs >>

Next ==
  \/ loadHistory \/ syncExistingPositions
  \/ TickFire \/ MpPriceReturn \/ MpCloseReturn \/ MpPnlReturn
  \/ MpCreateReturn \/ MpUpdateReturn \/ TickTailReturn
  \/ RecFire \/ RecListReturn \/ RecDirectReturn \/ RecActivityReturn
  \/ \E d \in DealIds : BrokerClose(d)
  \/ Shutdown \/ Exit

\* the position lifecycle: startup, position manager, reconciler, broker
\* (nothing on this path reads swingEnabled)
InitCore ==
  Init /\ ~cfg.swing /\ ~cfg.db /\ feed = { FirstBar } /\ models = NoModels
Spec == InitCore /\ [][Next]_vars

NextEntry ==
  \/ loadHistory \/ syncExistingPositions
  \/ M5Fire \/ M5UpdateReturn \/ M5PriceReturn \/ M5CreateReturn \/ M5SignalReturn
  \/ H1Fire \/ H1UpdateReturn \/ H1PriceReturn \/ H1CreateReturn
  \/ ResetFire \/ ResetAcctReturn
  \/ Shutdown \/ Exit

\* the entry path: startup, candle handlers, order placement, midnight reset
\* (nothing on this path reads MOVE_SL_TO_BREAKEVEN_ON_TP1)
InitEntry ==
  /\ Init /\ ~cfg.be /\ ~cfg.db /\ Len(boot) < 2
  /\ feed = { FirstBar } /\ models = NoModels
SpecEntry == InitEntry /\ [][NextEntry]_vars

NextDay ==
  \/ loadHistory \/ syncExistingPositions
  \/ (pcReset # "acct" /\ M5Fire)
  \/ M5UpdateReturn \/ M5PriceReturn \/ M5CreateReturn \/ M5SignalReturn
  \/ (pcReset # "acct" /\ TickFire)
  \/ MpPriceReturn \/ MpCloseReturn \/ MpPnlReturn
  \/ MpCreateReturn \/ MpUpdateReturn
  \/ (pcTick = "idle" /\ pcM5 = "idle" /\ ResetFire) \/ ResetAcctReturn

\* a trading day: startup, scalp entries, position manager, midnight reset;
\* the midnight alarm goes off between two job iterations and its account
\* fetch returns before the next timer fires (SpecEntry has the reset in the
\* middle of a handler)
InitDay == InitCore /\ cfg.be /\ boot = << BootBuy2 >>
SpecDay == InitDay /\ [][NextDay]_vars

\* the reconcile job alone: no handler tracks a new position
NextRec ==
  \/ loadHistory \/ syncExistingPositions
  \/ RecFire \/ RecListReturn \/ RecDirectReturn \/ RecActivityReturn
  \/ \E d \in DealIds : BrokerClose(d)
  \/ Shutdown \/ Exit
SpecRec == InitCore /\ [][NextRec]_vars

\* the candle store: history load, M5 and H1 polls with the handlers as one
\* awaited call, the clock
NextCandle ==
  \/ now < CandleClock /\ ClockTick
  \/ loadHistory \/ syncExistingPositions
  \/ M5Fire \/ M5CandleReturn \/ M5HandlerReturn
  \/ H1Fire \/ H1CandleReturn \/ H1HandlerReturn
InitCandle ==
  /\ Init /\ ~cfg.be /\ ~cfg.db /\ boot = << >>
  /\ feed = { FirstBar } /\ models = NoModels
SpecCandle == InitCandle /\ [][NextCandle]_vars

\* the scheduler: every job fire, the quote buffer, the midnight reset and
\* shutdown, with no position open and no candle closing
NextStop ==
  \/ loadHistory \/ syncExistingPositions
  \/ TickFire \/ TickTailReturn \/ FlushFire
  \/ RecFire
  \/ M5Fire \/ M5CandleReturn
  \/ H1Fire \/ H1CandleReturn
  \/ ResetFire \/ ResetAcctReturn
  \/ Shutdown \/ Exit
InitStop ==
  /\ Init /\ cfg.db /\ ~cfg.be /\ ~cfg.swing /\ boot = << >>
  /\ feed = { FirstBar } /\ models = NoModels
SpecStop == InitStop /\ [][NextStop]_vars

\* the setups: both candle handlers with their order placement, on a feed
\* whose bars go beyond the bar a setup formed on, next to one position
\* adopted at startup
NextSetup ==
  \/ loadHistory \/ syncExistingPositions
  \/ M5Fire \/ M5UpdateReturn \/ M5PriceReturn \/ M5CreateReturn \/ M5SignalReturn
  \/ H1Fire \/ H1UpdateReturn \/ H1PriceReturn \/ H1CreateReturn
InitSetup ==
  /\ Init /\ ~cfg.be /\ ~cfg.db /\ cfg.swing /\ boot = << BootBuy2 >>
  /\ feed = Bars /\ models = NoModels
SpecSetup == InitSetup /\ [][NextSetup]_vars

\* the scalp handler (the only caller of mlModel.js) under every pair of
\* champion and challenger
NextMl ==
  \/ loadHistory \/ syncExistingPositions
  \/ M5Fire \/ M5UpdateReturn \/ M5PriceReturn \/ M5CreateReturn \/ M5SignalReturn
InitMl ==
  /\ Init /\ ~cfg.be /\ cfg.db /\ ~cfg.swing /\ Len(boot) < 2
  /\ feed = { FirstBar }
SpecMl == InitMl /\ [][NextMl]_vars

\* variant: the loop runs once more
ConfirmLoops_le(attempt, retries) == attempt <= retries

\* for (let attempt = 0; attempt < retries; attempt++)
ConfirmLoops(attempt, retries) == attempt < retries

\* _confirmDeal(dealReference, retries) entered: the for loop tests
\* attempt < retries and suspends in sleep(delayMs), or falls through to the
\* timeout error
ConfirmCall ==
  /\ confirm.pc \in { "idle", "returned", "threw" }
  /\ \E retries \in 0 .. CONFIRM_RETRIES :
       confirm' = IF ConfirmLoops(0, retries)
                  THEN [pc |-> "sleep", retries |-> retries, attempt |-> 0,
                        answers |-> << >>, out |-> "NONE"]
                  ELSE [pc |-> "threw", retries |-> retries, attempt |-> 0,
                        answers |-> << >>, out |-> "TIMEOUT"]
  /\ UNCHANGED << st, cfg, miss, remote, nextDeal, dealCap, gateRun, boot, feed, models, session,
                  mainVars, tickVars, recVars, notified, ghostVars, entryVars,
                  created, ret, fetched, csVars, lastUpd, quoteBuf, fired,
                  placed, mpAnswer, preds, threw >>

\* await sleep(delayMs) returned: the GET is sent
ConfirmSleepReturn ==
  /\ confirm.pc = "sleep"
  /\ confirm' = [confirm EXCEPT !.pc = "get"]
  /\ UNCHANGED << st, cfg, miss, remote, nextDeal, dealCap, gateRun, boot, feed, models, session,
                  mainVars, tickVars, recVars, notified, ghostVars, entryVars,
                  created, ret, fetched, csVars, lastUpd, quoteBuf, fired,
                  placed, mpAnswer, preds, threw >>

\* await axios.get(/confirms/ref) returned or threw: return the data, throw,
\* or attempt++ and the loop test again
ConfirmGetReturn ==
  /\ confirm.pc = "get"
  /\ \E dealStatus \in PollAnswers :
       LET seen == Append(confirm.answers, dealStatus) IN
       confirm' =
         IF dealStatus = "ERROR"
         THEN [confirm EXCEPT !.pc = "threw", !.answers = seen, !.out = "ERROR"]
         ELSE IF ConfirmReturns(dealStatus)
         THEN [confirm EXCEPT !.pc = "returned", !.answers = seen,
                              !.out = dealStatus]
         ELSE IF dealStatus # ""
         THEN [confirm EXCEPT !.pc = "threw", !.answers = seen,
                              !.out = dealStatus]
         ELSE IF ConfirmLoops(confirm.attempt + 1, confirm.retries)
         THEN [confirm EXCEPT !.pc = "sleep", !.answers = seen,
                              !.attempt = @ + 1]
         ELSE [confirm EXCEPT !.pc = "threw", !.answers = seen,
                              !.attempt = @ + 1, !.out = "TIMEOUT"]
  /\ UNCHANGED << st, cfg, miss, remote, nextDeal, dealCap, gateRun, boot, feed, models, session,
                  mainVars, tickVars, recVars, notified, ghostVars, entryVars,
                  created, ret, fetched, csVars, lastUpd, quoteBuf, fired,
                  placed, mpAnswer, preds, threw >>

\* one _confirmDeal call after the other, with every retries up to the
\* default and every answer of the confirm endpoint
NextConfirm == ConfirmCall \/ ConfirmSleepReturn \/ ConfirmGetReturn
InitConfirm ==
  /\ Init /\ ~cfg.be /\ ~cfg.db /\ ~cfg.swing /\ boot = << >>
  /\ feed = { FirstBar } /\ models = NoModels
SpecConfirm == InitConfirm /\ [][NextConfirm]_vars

\* strategy.onM5Close() is called by the M5 job after cs.update('M5') gave a
\* new close: the handler up to await fetchMarket(), or to its finally block
\* when riskOK() fails
M5HandlerStart ==
  /\ Alive /\ pcM5 = "m5_handler"
  /\ sigMl' = NoSigMl /\ threw' = "NONE"
  /\ IF ~riskOK(st)
     THEN /\ pcM5' = "m5_signal" /\ sigAction' = "SKIP_RISK"
          /\ sigM5' = EmitSignal(0)
          /\ UNCHANGED << m5Busy, m5Order >>
     ELSE /\ pcM5' = "m5_price" /\ sigAction' = "HOLD" /\ sigM5' = 0
          /\ UNCHANGED << m5Busy, m5Order >>
  /\ notified' = NoNotify /\ ret' = "NONE" /\ created' = NoCreate
  /\ EntryRest /\ fired' = "NONE" /\ placed' = NoPlace
  /\ UNCHANGED << st, remote, nextDeal, h1Vars, pcReset, sigH1,
                  addCalls, recInstalled >>

\* no job is between two awaits
JobsIdle ==
  /\ pcTick = "idle" /\ tickTails = 0 /\ pcRec = "idle" /\ pcM5 = "idle"

\* the clock stops here in SpecFail: two M5 bars close after startup
FailClock == 6

\* the jobs one iteration at a time (a timer callback starts when no other
\* job is suspended): position manager, reconciler, the M5 job with the
\* candle store and the scalp handler (swing mode off)
NextFail ==
  \/ loadHistory \/ syncExistingPositions
  \/ JobsIdle /\ ~Booting /\ now < FailClock /\ ClockTick
  \/ JobsIdle /\ TickFire
  \/ MpPriceReturn \/ MpCloseReturn \/ MpPnlReturn \/ MpCreateReturn
  \/ MpUpdateReturn \/ TickTailReturn
  \/ JobsIdle /\ RecFire
  \/ RecListReturn \/ RecDirectReturn \/ RecActivityReturn
  \/ JobsIdle /\ M5Fire
  \/ M5CandleReturn \/ M5HandlerStart \/ M5PriceReturn \/ M5CreateReturn
  \/ M5SignalReturn
InitFail ==
  /\ Init /\ cfg.be /\ ~cfg.db /\ ~cfg.swing /\ boot = << BootBuy2 >>
  /\ feed = { FirstBar } /\ models = NoModels
SpecFail == InitFail /\ [][NextFail]_vars

\* the two entry jobs with swing mode on and a broker that accepts more
\* orders than the day's allowance: the M5 and the H1 callback interleave at
\* every await (cs.update, fetchMarket, api.createPosition, insertSignal)
NextRisk ==
  \/ loadHistory \/ syncExistingPositions
  \/ M5Fire \/ M5UpdateReturn \/ M5PriceReturn \/ M5CreateReturn \/ M5SignalReturn
  \/ H1Fire \/ H1UpdateReturn \/ H1PriceReturn \/ H1CreateReturn
InitRisk ==
  /\ InitWith(MaxRiskDeals) /\ ~cfg.be /\ ~cfg.db /\ cfg.swing /\ boot = << >>
  /\ feed = { FirstBar } /\ models = NoModels
SpecRisk == InitRisk /\ [][NextRisk]_vars

\* ------------------------------------------------ gate chain of onM5Close
\* what one evaluation of onM5Close reads: state.riskOK(), fetchMarket()
\* (threw, market closed, or a quote), the spread test, trendFilterM15(),
\* chopFilter('M5'), state.getSetupScalp(), and for an active setup the
\* answer of each structural and execution gate and of mlModel.score
GateBar == [low |-> 95, high |-> 106]
Markets == { "OK", "ERR", "CLOSED" }
MlAnswers == { "NONE", "PASS", "BLOCK" }
SetupGates == { "alignmentOk", "noMeanBreak", "notExpired", "h1MacroOk",
                "m15StrengthOk", "bosOk", "rsiOk", "atrRatioOk", "bodyOk",
                "m1ok" }
GateIn(r, m, sp, t, c, su, pb, ok, ml) ==
  [riskOK |-> r, market |-> m, spreadOk |-> sp, trend |-> t, isChop |-> c,
   setup |-> su, pullback |-> pb, ok |-> ok, ml |-> ml]

SetupInputs == { NoSetup, Setup("BUY", FirstBar.low), Setup("SELL", FirstBar.high) }
\* inputs the chain cannot tell apart are taken once: the pullback test is
\* read without a setup only, the setup gates and the model with one only
PullbackCases(su) == IF su.active THEN { TRUE } ELSE BOOLEAN
SetupGateCases(su) ==
  IF su.active THEN [SetupGates -> BOOLEAN] ELSE { [n \in SetupGates |-> TRUE] }
MlCases(su) == IF su.active THEN MlAnswers ELSE { "NONE" }

GateOut(action, setup, order) ==
  [action |-> action, setup |-> setup, order |-> order]

\* the branch of onM5Close for an active setup, from the trend-flip test to
\* placeOrder
SetupChain(g) ==
  LET su  == g.setup
      dir == su.direction
      upd == updateSetupExtreme(su, GateBar)
      skip(label) == GateOut(dir \o label, NoSetup, FALSE)
  IN
  IF g.trend # (IF dir = "BUY" THEN "UP" ELSE "DOWN")
  THEN GateOut("SKIP_TREND_FLIP", NoSetup, FALSE)
  ELSE IF ~g.ok["alignmentOk"] THEN GateOut("SKIP_EMA_ALIGNMENT", NoSetup, FALSE)
  ELSE IF ~g.ok["noMeanBreak"] THEN GateOut("SKIP_MEAN_BREAK", NoSetup, FALSE)
  ELSE IF ~g.ok["notExpired"] THEN GateOut("SKIP_EXPIRED", NoSetup, FALSE)
  ELSE IF ~g.ok["h1MacroOk"] THEN skip("_SKIP_H1_MACRO")
  ELSE IF ~g.ok["m15StrengthOk"] THEN skip("_SKIP_M15_STRENGTH")
  ELSE IF ~g.ok["bosOk"] THEN GateOut(dir \o "_WATCHING", upd, FALSE)
  ELSE IF ~g.ok["rsiOk"] THEN skip("_SKIP_RSI")
  ELSE IF ~g.ok["atrRatioOk"] THEN skip("_SKIP_ATR_RATIO")
  ELSE IF ~g.ok["bodyOk"] THEN skip("_SKIP_BODY")
  ELSE IF ~g.ok["m1ok"] THEN skip("_SKIP_M1")
  ELSE IF g.ml = "BLOCK" THEN skip("_SKIP_ML")
  ELSE GateOut(dir \o "_EXEC", upd, TRUE)

\* variant: the chop filter is asked before the trend filter
onM5Close_chopFirst(g) ==
  IF ~g.riskOK THEN GateOut("SKIP_RISK", g.setup, FALSE)
  ELSE IF g.market = "ERR" THEN GateOut("SKIP_MARKET_ERR", g.setup, FALSE)
  ELSE IF g.market = "CLOSED" THEN GateOut("SKIP_MARKET_CLOSED", g.setup, FALSE)
  ELSE IF ~g.spreadOk THEN GateOut("SKIP_SPREAD", g.setup, FALSE)
  ELSE IF g.isChop THEN GateOut("SKIP_CHOP", NoSetup, FALSE)
  ELSE IF g.trend = "NONE" THEN GateOut("SKIP_TREND", NoSetup, FALSE)
  ELSE IF g.setup.active THEN SetupChain(g)
  ELSE GateOut("SETUP_FORMING", createSetup(g.trend, GateBar, g.pullback), FALSE)

\* the try block of onM5Close gate by gate: sig.action when the finally
\* block runs, the scalp setup state.js holds then, whether placeOrder was
\* called
onM5Close(g) ==
  IF ~g.riskOK THEN GateOut("SKIP_RISK", g.setup, FALSE)
  ELSE IF g.market = "ERR" THEN GateOut("SKIP_MARKET_ERR", g.setup, FALSE)
  ELSE IF g.market = "CLOSED" THEN GateOut("SKIP_MARKET_CLOSED", g.setup, FALSE)
  ELSE IF ~g.spreadOk THEN GateOut("SKIP_SPREAD", g.setup, FALSE)
  ELSE IF g.trend = "NONE" THEN GateOut("SKIP_TREND", NoSetup, FALSE)
  ELSE IF g.isChop THEN GateOut("SKIP_CHOP", NoSetup, FALSE)
  ELSE IF g.setup.active THEN SetupChain(g)
  ELSE GateOut("SETUP_FORMING", createSetup(g.trend, GateBar, g.pullback), FALSE)

\* one evaluation: the inputs it reads and what the chain makes of them
GateEval ==
  /\ gateRun = NoGateRun
  /\ \E r \in BOOLEAN, m \in Markets, sp \in BOOLEAN, t \in Trends,
        c \in BOOLEAN, su \in SetupInputs :
     \E pb \in PullbackCases(su), ok \in SetupGateCases(su), ml \in MlCases(su) :
       LET g == GateIn(r, m, sp, t, c, su, pb, ok, ml)
       IN  gateRun' = [in |-> << g >>, out |-> << onM5Close(g) >>]
  /\ UNCHANGED << st, cfg, miss, remote, nextDeal, dealCap, boot, feed, models,
                  confirm, session, mainVars, tickVars, recVars, notified, ghostVars,
                  entryVars, created, ret, fetched, csVars, lastUpd, quoteBuf,
                  fired, placed, mpAnswer, preds, threw >>

NextGates == GateEval
InitGates ==
  /\ Init
  /\ ~cfg.be /\ ~cfg.db /\ ~cfg.swing /\ boot = << >>
  /\ feed = { FirstBar } /\ models = NoModels
SpecGates == InitGates /\ [][NextGates]_vars

\* ------------------------------------------------- placeOrder on its own
\* the live quote placeOrder is handed: any bid around the pullback, any
\* spread up to MaxSpread
MinBid == 94
MaxBid == 106
MaxSpread == 2
PlaceQuotes ==
  { [bid |-> b, ask |-> b + sp] : b \in MinBid .. MaxBid, sp \in 0 .. MaxSpread }

\* one call of placeOrder(mode, setup, bid, ask): its arguments, and the
\* position it has added when it returns (none when it refuses the order or
\* api.createPosition throws)
PlaceEval ==
  /\ gateRun = NoGateRun
  /\ \E mode \in { "SCALP", "SWING" }, su \in SetupInputs \ { NoSetup },
        q \in PlaceQuotes, atrVal \in Atrs, sc \in Scripts :
       LET order == OrderFor(mode, su, q, atrVal)
           res   == createPosition(sc, nextDeal)
       IN  gateRun' =
             [in  |-> << [mode |-> mode, setup |-> su, quote |-> q,
                          atr |-> atrVal] >>,
              out |-> IF order # << >> /\ res.ok
                      THEN << [order[1] EXCEPT !.dealId = Val(res.dealId)] >>
                      ELSE << >>]
  /\ UNCHANGED << st, cfg, miss, remote, nextDeal, dealCap, boot, feed, models,
                  confirm, session, mainVars, tickVars, recVars, notified, ghostVars,
                  entryVars, created, ret, fetched, csVars, lastUpd, quoteBuf,
                  fired, placed, mpAnswer, preds, threw >>

NextPlace == PlaceEval
SpecPlace == InitGates /\ [][NextPlace]_vars

\* retention: the M5 store from the history load over enough closes to fill
\* it beyond TF_HISTORY (clock up to MaxClock, M5 poll with its handler as
\* one awaited call)
NextKeep ==
  \/ ClockTick
  \/ loadHistory \/ syncExistingPositions
  \/ M5Fire \/ M5CandleReturn \/ M5HandlerReturn
InitKeep == InitCandle /\ ~cfg.swing
SpecKeep == InitKeep /\ [][NextKeep]_vars

\* ------------------------------------------------------------ properties
\* a step of the reconcile job (its position in reconcilePositions moves)
RecStep == (pcRec' # pcRec \/ recIdx' # recIdx) /\ pcMain' = pcMain

\* a step of the reconcile job that takes deal d out of the tracked set
RecRemoves(d) == RecStep /\ d \in Tracked /\ d \notin Tracked'

\* the dealIds of the [...botPositions] copy the running cycle iterates
SnapIds == { recSnap[i] : i \in 1 .. Len(recSnap) }

\* C1: the reconciler removes a tracked position only when its miss counter
\* has reached MISS_THRESHOLD and the direct single-position fetch answered
\* that the position does not exist; a miss below the threshold, a direct
\* fetch that finds the position and a direct fetch that fails remove nothing.
C1_RemoveOnlyConfirmed ==
  [][\A d \in DealIds : RecRemoves(d) =>
        /\ pcRec = "rec_activity"
        /\ recSnap[recIdx] = d
        /\ recMisses >= MISS_THRESHOLD
        /\ recStillOpen = "none"
        /\ d \notin remote]_vars

\* C1 witness: the reconciler has just removed a deal the broker had closed
C1_Witness ==
  /\ notified.event = "BROKER_CLOSE"
  /\ notified.dealId \notin Tracked
  /\ notified.dealId \notin remote

C5_FreshAbsences ==
  [][/\ \A d \in DealIds : RecRemoves(d) => streak[d] >= MISS_THRESHOLD
     /\ pcRec' = "idle" => \A d \in Tracked' : miss'[d] <= streak'[d]
     /\ (RecStep /\ pcRec = "rec_direct" /\ recStillOpen' = "found")
          => miss'[recSnap[recIdx]] = 0 /\ Tracked' = Tracked]_vars

\* C5 witness: the direct fetch at the threshold found the position: it is
\* still tracked and its counter is back to 0
C5_Witness ==
  /\ recStillOpen = "found"
  /\ \E d \in Tracked : miss[d] = 0 /\ streak[d] = 0 /\ d \in remote

\* the profit of the first closed position event of deal d in a fetched
\* activity list: details.profit, else profit, else nothing
FirstCloseProfit(acts, d) ==
  LET hits == { i \in 1 .. Len(acts) : acts[i].dealId = d /\ acts[i].closed }
  IN  IF hits = {} THEN None
      ELSE LET first == CHOOSE i \in hits : \A j \in hits : i <= j
           IN  IF acts[first].dp # None THEN acts[first].dp ELSE acts[first].p

\* C6: when the direct fetch confirmed that the position does not exist, the
\* same cycle removes it and sends a BROKER_CLOSE notification; a closed
\* event with a profit in the history is added to the day's realized PnL and
\* moves consecutiveLosses (+1 when negative, else 0); without such an event,
\* or when the history fetch fails, the counters stay and it is still removed.
C6_BrokerCloseBooked ==
  [][(RecStep /\ pcRec = "rec_activity") =>
       LET d      == recSnap[recIdx]
           profit == IF fetched'.ok THEN FirstCloseProfit(fetched'.acts, d)
                     ELSE None
       IN  /\ d \notin Tracked'
           /\ notified'.event = "BROKER_CLOSE" /\ notified'.dealId = d
           /\ notified'.pnl = profit
           /\ IF profit # None
              THEN /\ st'.dayRealizedPnlUsd = st.dayRealizedPnlUsd + profit[1]
                   /\ st'.consecutiveLosses =
                        IF profit[1] < 0 THEN st.consecutiveLosses + 1 ELSE 0
              ELSE /\ st'.dayRealizedPnlUsd = st.dayRealizedPnlUsd
                   /\ st'.consecutiveLosses = st.consecutiveLosses]_vars

\* C6 witness: a broker close booked from the history as a loss
C6_Witness ==
  /\ notified.event = "BROKER_CLOSE"
  /\ fetched.ok /\ FirstCloseProfit(fetched.acts, fetched.dealId) = Some(-8)
  /\ st.dayRealizedPnlUsd = -8 /\ st.consecutiveLosses = 1

C3_Original ==
  (IF pcTick # "idle" THEN 1 ELSE 0) + tickTails <= 1

\* a step of the tick job inside managePositions
MpStep == (pcTick' # pcTick \/ mpIdx' # mpIdx) /\ pcMain' = pcMain

\* C8 as stated: on a stop or TP2 hit managePositions removes the position
\* only after the remote close was confirmed; when closePosition fails the
\* position stays tracked and the day's PnL and consecutiveLosses are left
\* as they are by that tick.
C8_Original ==
  [][(MpStep /\ pcTick = "mp_pnl" /\ mpBranch \in {"SL", "TP2"}
        /\ mpConfirmed = None)
       => /\ mpSnap[mpIdx].dealId \in Tracked => mpSnap[mpIdx].dealId \in Tracked'
          /\ st'.dayRealizedPnlUsd = st.dayRealizedPnlUsd
          /\ st'.consecutiveLosses = st.consecutiveLosses]_vars

\* C4: tradesToday is the number of addPosition calls since the last
\* dailyReset; adopting, replacing and removing a position and booking PnL
\* leave it as it is.
C4_TradesTodayCountsAdds ==
  st.tradesToday = addCalls

\* C4 witness: one order of the day was placed; the adopted position was
\* closed and booked, the placed one was replaced by its tp1Done copy
C4_Witness ==
  /\ st.tradesToday = 1
  /\ 1 \notin Tracked /\ st.dayRealizedPnlUsd # 0
  /\ \E i \in 1 .. Len(st.openPositions) :
       st.openPositions[i].mode = "SCALP" /\ st.openPositions[i].tp1Done

\* C9: placeOrder tracks a position, and counts the trade, only after the
\* deal confirmation came back ACCEPTED with a dealId; when the submission
\* fails, the confirmation has another status or no dealId, or the polling
\* times out, nothing is tracked and tradesToday stays.
C9_AddOnlyConfirmed ==
  [][IF created'.status = "NONE"
     THEN pcMain' = pcMain =>
            Tracked' = Tracked /\ st'.tradesToday <= st.tradesToday
     ELSE IF created'.status = "ACCEPTED" /\ created'.dealId # None
     THEN /\ created'.dealId[1] \notin Tracked
          /\ Tracked' = Tracked \cup {created'.dealId[1]}
          /\ st'.tradesToday = st.tradesToday + 1
     ELSE /\ st'.openPositions = st.openPositions
          /\ st'.tradesToday = st.tradesToday]_vars

\* C9 witness: an order was confirmed and its deal is tracked
C9_Witness ==
  /\ created.status = "ACCEPTED" /\ created.dealId # None
  /\ created.dealId[1] \in Tracked /\ st.tradesToday >= 1

\* C10 as stated: an invocation of a strategy handler has emitted exactly
\* one signal record when it is over: onM5Close when it awaits the insert in
\* its finally block, onH1Close when it returns.
C10_Original ==
  /\ pcM5 = "m5_signal" => sigM5 = 1
  /\ ret = "onH1Close" => sigH1 = 1

\* ----------------------------------------------- candle store properties
\* C12: after loadHistory and any number of update(tf) calls (the prices of
\* the feed arrive in either order and getCandles sorts them ascending),
\* store[tf] is strictly increasing in bar time: no time is stored twice and
\* every bar an update appends is later than every bar stored before it.
C12_StoreStrictlyIncreasing ==
  /\ \A tf \in TFs : \A i \in 1 .. Len(store[tf]) - 1 :
       store[tf][i].time < store[tf][i + 1].time
  /\ lastUpd.ret =>
       LET s    == store[lastUpd.tf]
           kept == LastN(lastUpd.added, Len(s))
           n    == Len(s) - Len(kept)
       IN  /\ SubSeq(s, n + 1, Len(s)) = kept
           /\ \A i \in 1 .. n, j \in 1 .. Len(lastUpd.added) :
                s[i].time < lastUpd.added[j].time

\* an update has appended two bars to a store that held bars already
C12_Witness ==
  /\ lastUpd.ret /\ lastUpd.tf = "M5"
  /\ Len(store["M5"]) > Len(lastUpd.added)
  /\ Len(lastUpd.added) >= 2

\* C13: no bar is in store[tf] that was stored while still in progress: for
\* every stored bar, the clock at the moment loadHistory or update stored it
\* was at least bar.time + period(tf) - 1 (one unit of the clock).
C13_OnlyClosedStored ==
  \A tf \in TFs :
    /\ Len(storedAt[tf]) = Len(store[tf])
    /\ \A i \in 1 .. Len(store[tf]) :
         storedAt[tf][i] >= store[tf][i].time + TF_MS[tf] - 1

\* an update stores a bar at the very moment its period is over, from prices
\* that end with the bar that has just opened
C13_Witness ==
  /\ lastUpd.ret
  /\ lastUpd.added[Len(lastUpd.added)].time + TF_MS[lastUpd.tf] = now
  /\ lastUpd.bars[Len(lastUpd.bars)].time = now

\* the last bar of a price list is still forming at time t
StillForming(tf, bars, t) ==
  Len(bars) > 0 /\ t < bars[Len(bars)].time + TF_MS[tf]

\* an update(tf) returns in this step, having been given the bars (the newest
\* INCREMENTAL_BARS + 1 of them) that loadHistory was given
SameBarsAsLoaded ==
  /\ lastUpd'.tf \in TFs
  /\ lastUpd'.bars = LastN(loaded[lastUpd'.tf].bars, INCREMENTAL_BARS + 1)

UpdateDidNothing ==
  /\ ~lastUpd'.ret /\ lastUpd'.added = << >>
  /\ store' = store /\ lastClosedTime' = lastClosedTime

\* C14 as stated: update(tf) after loadHistory, the remote returning the same
\* bars as during loadHistory, appends no bar, returns false and leaves
\* store[tf] and lastClosedTime[tf] unchanged.
C14_Original == [][ SameBarsAsLoaded => UpdateDidNothing ]_vars

\* C14, amended: the same holds when, in addition, the last bar returned is
\* still in progress at the time of the update or was already closed at the
\* time of loadHistory.
C14_SameBarsSameClosed ==
  [][ ( SameBarsAsLoaded
        /\ LET tf == lastUpd'.tf
           IN  \/ StillForming(tf, lastUpd'.bars, now)
               \/ ~StillForming(tf, loaded[tf].bars, loaded[tf].at) )
      => UpdateDidNothing ]_vars

\* an update returned false on the bars of loadHistory, whose last bar is
\* still in progress, with closed bars in the store
C14_Witness ==
  /\ lastUpd.tf = "M5" /\ ~lastUpd.ret
  /\ lastUpd.bars = LastN(loaded["M5"].bars, INCREMENTAL_BARS + 1)
  /\ Len(lastUpd.bars) >= 2
  /\ StillForming("M5", lastUpd.bars, now)
  /\ Len(store["M5"]) >= 1

\* times the handler of tf was called with a bar of time t as the latest bar
EvalCount(tf, t) == Cardinality({ i \in 1 .. Len(evals[tf]) : evals[tf][i] = t })

\* C11 as stated: every bar update appends to the M5 store is evaluated by
\* onM5Close exactly once, as the latest bar of the store (and every H1 bar by
\* onH1Close when swing mode is on): when update has returned true and the
\* handler has been called, each appended bar has exactly one evaluation.
C11_Original ==
  ( lastUpd.ret /\ (lastUpd.tf = "M5" \/ cfg.swing) )
    => \A j \in 1 .. Len(lastUpd.added) :
         EvalCount(lastUpd.tf, lastUpd.added[j].time) = 1

\* ------------------------------------------------------ shutdown properties
\* C15: once gracefulShutdown has set the flag, no timer callback of a
\* periodic job gets past its guard (no update, handler, managePositions,
\* reconcilePositions or quote flush is called), and a midnight alarm that
\* fires returns without going on to getAccount and dailyReset.
C15_NoJobAfterFlag ==
  [][ shutting =>
        /\ fired' = "NONE"
        /\ (pcReset = "armed" => pcReset' \in {"armed", "off"}) ]_vars

\* the flag is set, timers created after clearInterval are live, and the
\* midnight alarm has fired and returned
C15_Witness ==
  shutting /\ pcMain = "late" /\ TimersOn /\ pcReset = "off" /\ quoteBuf = 0

\* a job iteration in flight starts api.closePosition or api.createPosition
OrderStarted ==
  \/ pcTick' \in {"mp_close", "mp_create"} /\ (pcTick' # pcTick \/ mpIdx' # mpIdx)
  \/ pcM5' = "m5_create" /\ pcM5 # "m5_create"
  \/ pcH1' = "h1_create" /\ pcH1 # "h1_create"

\* C16 as stated: after the flag is set, a job iteration already in flight
\* returns without starting a createPosition or closePosition call.
C16_Original == [][ shutting => ~OrderStarted ]_vars

\* C17 as stated: gracefulShutdown sets the flag, cancels every scheduled job
\* including the midnight alarm, destroys the session and flushes the
\* buffered quote ticks, and only then exits: while it waits for the session
\* to be destroyed no alarm is armed, and at exit the quote buffer is empty.
C17_Original ==
  /\ pcMain = "stopping" => pcReset # "armed"
  /\ pcMain = "exited" => quoteBuf = 0

\* --------------------------------------------------------- setup properties
\* the evaluation of onM5Close ends in this step, with one of the actions
M5EndsIn(actions) ==
  pcM5 # "m5_signal" /\ pcM5' = "m5_signal" /\ sigAction' \in actions

\* C18 as stated (scalp mode): after an evaluation that ends in order issue,
\* setup expiry, trend flip, EMA-alignment break, mean break or a failed risk
\* gate, the scalp setup is inactive.
C18_Original ==
  [][ M5EndsIn({"EXEC", "SKIP_EXPIRED", "SKIP_TREND_FLIP", "SKIP_EMA_ALIGNMENT",
                "SKIP_MEAN_BREAK", "SKIP_RISK"})
      => ~st'.setupScalp.active ]_vars

\* C19 as stated: when an evaluation has reached order issue, the setup of
\* its mode is inactive when the handler returns, whatever came of the order.
C19_Original ==
  [][ /\ (ret' = "onM5Close" /\ sigAction = "EXEC") => ~st'.setupScalp.active
      /\ (ret' = "onH1Close" /\ pcH1 = "h1_create") => ~st'.setupSwing.active
    ]_vars

C21_ExtremeMonotone ==
  [][/\ (st.setupScalp.active /\ st'.setupScalp.active) =>
          /\ st'.setupScalp.direction = st.setupScalp.direction
          /\ IF st.setupScalp.direction = "BUY"
             THEN st'.setupScalp.pullbackExtreme <= st.setupScalp.pullbackExtreme
             ELSE st'.setupScalp.pullbackExtreme >= st.setupScalp.pullbackExtreme
     /\ (st.setupSwing.active /\ st'.setupSwing.active) =>
          /\ st'.setupSwing.direction = st.setupSwing.direction
          /\ IF st.setupSwing.direction = "BUY"
             THEN st'.setupSwing.pullbackExtreme <= st.setupSwing.pullbackExtreme
             ELSE st'.setupSwing.pullbackExtreme >= st.setupSwing.pullbackExtreme]_vars

\* C21 witness: an evaluation has just moved the BUY scalp setup below the
\* low of the bar it formed on, and the SELL swing setup stands above the
\* high of the bar it formed on; both are still active
C21_Witness ==
  /\ st.setupScalp.active /\ st.setupScalp.direction = "BUY"
  /\ st.setupScalp.pullbackExtreme < st.setupScalp.touchPrice
  /\ sigAction = "HOLD" /\ pcM5 = "m5_signal"
  /\ st.setupSwing.active /\ st.setupSwing.direction = "SELL"
  /\ st.setupSwing.pullbackExtreme > st.setupSwing.touchPrice
\* ------------------------------------------------- TP1 handling properties
\* the step in which api.createPosition of the TP1 re-entry returned or threw
ReentryStep == pcTick = "mp_create" /\ MpStep

\* the tracked positions with dealId d
TrackedAs(S, d) ==
  { i \in 1 .. Len(S.openPositions) : S.openPositions[i].dealId = d }

\* C22: when the partial close of a position of size s at TP1 was confirmed
\* and the re-entry of the remainder is confirmed with a dealId, then after
\* that step the old dealId is not tracked, exactly one position is tracked
\* under the new dealId, with size s - floor(s / 2), entry at the exit price
\* the tick observed, the tp2 of the old position and tp1Done set, and
\* tradesToday is what it was.
C22_FollowerReplaces ==
  [][(ReentryStep /\ mpAnswer'.ok) =>
       LET pos == mpSnap[mpIdx]
           new == Val(mpAnswer'.dealId)
           at  == TrackedAs(st', new)
       IN  /\ (pos.size * PARTIAL_NUM) \div PARTIAL_DEN >= 1
           /\ pos.dealId \notin Tracked'
           /\ Cardinality(at) = 1
           /\ \A i \in at :
                LET f == st'.openPositions[i] IN
                /\ f.size = pos.size - (pos.size * PARTIAL_NUM) \div PARTIAL_DEN
                /\ f.entry = (IF pos.direction = "BUY" THEN mpQuote.bid
                                                       ELSE mpQuote.ask)
                /\ f.tp2 = pos.tp2 /\ f.tp1Done
                /\ f.direction = pos.direction
           /\ st'.tradesToday = st.tradesToday]_vars

\* C22 witness: the re-entry has just been confirmed: the follower of the
\* adopted position of size 2 is tracked with size 1 under a new dealId
C22_Witness ==
  /\ mpAnswer.op = "create" /\ mpAnswer.ok
  /\ Val(mpAnswer.dealId) \in Tracked /\ 1 \notin Tracked
  /\ \E i \in 1 .. Len(st.openPositions) :
       /\ st.openPositions[i].dealId = Val(mpAnswer.dealId)
       /\ st.openPositions[i].size = 1 /\ st.openPositions[i].tp1Done
       /\ st.openPositions[i].entry = 116
\* the step in which api.closePosition of the TP1 partial close returned or
\* threw
PartialCloseStep == pcTick = "mp_close" /\ mpBranch = "TP1" /\ MpStep

\* position d is tracked in S with tp1Done set
DoneIn(S, d) ==
  \E i \in 1 .. Len(S.openPositions) :
    S.openPositions[i].dealId = d /\ S.openPositions[i].tp1Done

\* the TP1 branch of position d begins (its close or its stop update is
\* about to be awaited)
Tp1Begins(d) ==
  /\ MpStep /\ mpBranch' = "TP1" /\ pcTick' \in {"mp_close", "mp_update"}
  /\ mpSnap'[mpIdx'].dealId = d
  /\ pcTick # pcTick' \/ mpIdx # mpIdx'

\* C23: when api.closePosition or api.createPosition of a TP1 partial close
\* throws, the position is neither removed nor replaced by that step and,
\* where it is tracked, it has tp1Done = true under its dealId afterwards;
\* tp1Done of a tracked position is never cleared, and the TP1 branch never
\* begins for a tracked position that has tp1Done.
C23_FailedPartialMarksDone ==
  [][/\ ((PartialCloseStep \/ ReentryStep) /\ ~mpAnswer'.ok) =>
          LET d == mpSnap[mpIdx].dealId IN
          /\ d \in Tracked <=> d \in Tracked'
          /\ d \in Tracked' => DoneIn(st', d)
          /\ Len(st'.openPositions) = Len(st.openPositions)
     /\ \A d \in DealIds :
          /\ (DoneIn(st, d) /\ d \in Tracked') => DoneIn(st', d)
          /\ DoneIn(st, d) => ~Tp1Begins(d)]_vars

\* C23 witness: the re-entry has just failed after a confirmed partial
\* close, and the position is tracked under its dealId with tp1Done
C23_Witness ==
  /\ mpAnswer.op = "create" /\ ~mpAnswer.ok
  /\ DoneIn(st, 1) /\ 1 \notin remote
\* ------------------------------------------------------------- busy flags
\* no iteration of a guarded job is running and no price ticker is awaited
AllIdle == JobsIdle /\ pcH1 = "idle"

\* the four guarded jobs with a body that awaits: a timer fires when the
\* iterations before it are over
NextBusy ==
  \/ loadHistory \/ syncExistingPositions
  \/ AllIdle /\ ~Booting /\ now < CandleClock /\ ClockTick
  \/ AllIdle /\ TickFire
  \/ MpPriceReturn \/ MpCloseReturn \/ MpPnlReturn \/ TickTailReturn
  \/ AllIdle /\ RecFire
  \/ RecListReturn \/ RecDirectReturn \/ RecActivityReturn
  \/ \E d \in DealIds : BrokerClose(d)
  \/ AllIdle /\ M5Fire
  \/ M5CandleReturn \/ M5HandlerReturn
  \/ AllIdle /\ H1Fire
  \/ H1CandleReturn \/ H1HandlerReturn
  \/ Shutdown \/ Exit
InitBusy ==
  /\ Init /\ ~cfg.be /\ ~cfg.db /\ cfg.swing /\ boot = << BootSell1, BootNoSL >>
  /\ feed = { FirstBar } /\ models = NoModels
SpecBusy == InitBusy /\ [][NextBusy]_vars

\* --------------------------------------------------------- broker session
MaxSessions == 3     \* sessions (token pairs) the broker issues in one run

\* a step of api.js session handling leaves the rest of the program alone
SessionFrame ==
  UNCHANGED << st, cfg, miss, remote, nextDeal, dealCap, gateRun, boot, feed,
               models, confirm, mainVars, tickVars, recVars, notified,
               ghostVars, entryVars, created, ret, fetched, csVars, lastUpd,
               quoteBuf, fired, placed, mpAnswer, preds, threw >>

\* where the createSession call of caller who (main() or the refresh timer)
\* waits
CreatePc(S, who) == IF who = "main" THEN S.main ELSE S.refresh
SetCreatePc(S, who, pc) ==
  IF who = "main" THEN [S EXCEPT !.main = pc] ELSE [S EXCEPT !.refresh = pc]

\* the tail of createSession: clearInterval(_refreshTimer) and a new
\* setInterval, then the call returns
ArmRefresh(S, who) ==
  SetCreatePc([S EXCEPT !.refreshTimer = TRUE], who,
              IF who = "main" THEN "done" ELSE "idle")

\* the process runs: process.exit has not been called
SessionAlive == session.destroy \in {"idle", "delete"}

\* main() calls api.createSession(): up to await axios.post
MainCreateSession ==
  /\ SessionAlive /\ session.main = "new"
  /\ session' = [session EXCEPT !.main = "post"]
  /\ SessionFrame

\* the refresh timer fires: createSession up to await axios.post
RefreshFire ==
  /\ SessionAlive /\ session.refreshTimer /\ session.refresh = "idle"
  /\ session.issued < MaxSessions
  /\ session' = [session EXCEPT !.refresh = "post"]
  /\ SessionFrame

\* POST /session returned or threw: on a throw createSession throws; else
\* the tokens and the account id are stored and either the account switch is
\* awaited or the refresh timer is armed
CreatePostReturn(who) ==
  /\ SessionAlive /\ CreatePc(session, who) = "post"
  /\ \/ session' = SetCreatePc(session, who,
                               IF who = "main" THEN "failed" ELSE "idle")
     \/ /\ session.issued < MaxSessions
        /\ \E switch \in BOOLEAN :
             LET n  == session.issued + 1
                 S1 == [session EXCEPT !.cst = n, !.secToken = n,
                                       !.accountId = "default", !.issued = n,
                                       !.live = @ \cup {n}]
             IN  session' = IF switch THEN SetCreatePc(S1, who, "put")
                                      ELSE ArmRefresh(S1, who)
  /\ SessionFrame

\* PUT /session returned (with new tokens or without) or threw; the refresh
\* timer is armed either way
CreatePutReturn(who) ==
  /\ SessionAlive /\ CreatePc(session, who) = "put"
  /\ \/ session' = ArmRefresh(session, who)
     \/ session' = ArmRefresh([session EXCEPT !.accountId = "configured"], who)
     \/ /\ session.issued < MaxSessions
        /\ LET n == session.issued + 1 IN
           session' = ArmRefresh([session EXCEPT !.cst = n, !.secToken = n,
                                    !.accountId = "configured",
                                    !.issued = n, !.live = @ \cup {n}], who)
  /\ SessionFrame

\* gracefulShutdown calls api.destroySession(): the refresh timer is
\* cleared; without tokens the call returns, else DELETE /session is
\* awaited with the tokens of this moment
DestroyCall ==
  /\ session.destroy = "idle"
  /\ session' = [session EXCEPT !.refreshTimer = FALSE,
                                !.destroy = IF session.cst = 0 THEN "done"
                                            ELSE "delete",
                                !.sent = session.cst]
  /\ SessionFrame

\* DELETE /session returned or threw: the tokens are cleared, destroySession
\* returns
DestroyDeleteReturn ==
  /\ session.destroy = "delete"
  /\ \E ok \in BOOLEAN :
       session' = [session EXCEPT !.cst = 0, !.secToken = 0,
                                  !.accountId = "none", !.destroy = "done",
                                  !.live = IF ok THEN @ \ {session.sent} ELSE @]
  /\ SessionFrame

\* gracefulShutdown returns and the signal handler calls process.exit: the
\* calls in flight and the timer end with the process
SessionExit ==
  /\ session.destroy = "done"
  /\ session' = [session EXCEPT !.destroy = "exited", !.refreshTimer = FALSE,
                                !.refresh = "idle",
                                !.main = IF @ \in {"post", "put"} THEN "failed"
                                         ELSE @]
  /\ SessionFrame

NextSession ==
  \/ MainCreateSession \/ RefreshFire
  \/ \E who \in {"main", "refresh"} : CreatePostReturn(who)
  \/ \E who \in {"main", "refresh"} : CreatePutReturn(who)
  \/ DestroyCall \/ DestroyDeleteReturn \/ SessionExit

\* session handling alone: login, refreshes, logout at any moment
SpecSession == InitConfirm /\ [][NextSession]_vars

\* ------------------------------------------------------ model properties
\* the rows of the champion among prediction rows
ChampionRows(rows) == SelectSeq(rows, LAMBDA r : ~r.shadow)

\* a step of the scalp handler as it is when mlModel.js holds mods: every
\* variable but the shadow rows among the prediction rows
NextWithModels(mods) ==
  \/ loadHistory \/ syncExistingPositions
  \/ M5Fire \/ M5UpdateReturn \/ M5PriceReturnWith(mods) \/ M5CreateReturn
  \/ /\ M5SignalTrade
     /\ \E saved \in SignalSaved :
          ChampionRows(preds') = ChampionRows(M5SignalRows(mods, saved))

\* C24: every step of a run is, from the same state and with the same
\* inputs, also a step of the run that has any other challenger (or none):
\* the same gate decisions, signal action, order, setups, positions, daily
\* counters and champion prediction rows; only the shadow rows differ.
C24_ChallengerNeverActs ==
  [][\A c \in Challengers :
       NextWithModels([models EXCEPT !.challenger = c])]_vars

\* C24 witness: with a champion and a challenger loaded, an evaluation has
\* passed the ML gate and placed its order; its champion row and the shadow
\* row of the challenger have just been written
C24_Witness ==
  /\ models.champion # None /\ models.challenger # None
  /\ ret = "onM5Close" /\ Len(preds) = 2
  /\ preds[1].acted /\ ~preds[1].shadow /\ preds[2].shadow
  /\ \E i \in 1 .. Len(st.openPositions) : st.openPositions[i].mode = "SCALP"

\* the pnl a step adds to the daily realized pnl
BookedDelta == st'.dayRealizedPnlUsd - st.dayRealizedPnlUsd

\* C25: every step of the position manager and of the reconciler either
\* books nothing (daily pnl, loss counter and booking counts unchanged) or
\* adds a pnl to dayRealizedPnlUsd with isLoss = (pnl < 0): a negative pnl
\* raises consecutiveLosses by exactly 1, a pnl >= 0 (0 included) resets it
C25_BookingFollowsSign ==
  [][\/ /\ BookedDelta < 0
        /\ st'.consecutiveLosses = st.consecutiveLosses + 1
     \/ /\ BookedDelta >= 0
        /\ st'.consecutiveLosses = 0
     \/ /\ BookedDelta = 0
        /\ st'.consecutiveLosses = st.consecutiveLosses
        /\ bookings' = bookings]_vars

\* C25 witness: two deals were booked once each, a loss of 8 and then a pnl
\* of exactly 0 that reset the loss counter, and a close has just succeeded
C25_Witness ==
  /\ st.dayRealizedPnlUsd = -8 /\ st.consecutiveLosses = 0
  /\ mpAnswer.op = "close" /\ mpAnswer.ok
  /\ \E d, e \in DealIds : d # e /\ bookings[d] = 1 /\ bookings[e] = 1

\* C30: for every dealId, state.updatePnL is called at most once, whatever
\* the interleaving of the position manager and the reconciler
C30_Original == \A d \in DealIds : bookings[d] <= 1

\* C29: with the break-even policy enabled, every tracked position with
\* tp1Done = true has sl >= entry
C29_Original ==
  cfg.be =>
    \A i \in 1 .. Len(st.openPositions) :
      st.openPositions[i].tp1Done
        => st.openPositions[i].sl >= st.openPositions[i].entry

\* the call in progress has ended
ConfirmEnded == confirm.pc \in { "returned", "threw" }

\* C28: _confirmDeal polls at most retries (at most 6) times; every poll
\* before the last one gave no dealStatus; it has returned exactly when the
\* last poll gave ACCEPTED, has thrown as soon as a poll gave another
\* dealStatus, and has thrown the timeout error exactly when all retries
\* polls gave no dealStatus; while it still waits it is below retries. With
\* the default retries the outcome is the one createPosition and
\* closePosition get.
C28_ConfirmBounded ==
  LET n    == Len(confirm.answers)
      last == IF n = 0 THEN "" ELSE confirm.answers[n]
  IN  /\ n <= confirm.retries /\ confirm.retries <= CONFIRM_RETRIES
      /\ \A k \in 1 .. n - 1 : confirm.answers[k] = ""
      /\ confirm.pc \in { "sleep", "get" }
           => n = confirm.attempt /\ confirm.attempt < confirm.retries /\ last = ""
      /\ confirm.pc = "returned" <=> last = "ACCEPTED"
      /\ confirm.pc = "threw" /\ confirm.out = "REJECTED" <=> last = "REJECTED"
      /\ confirm.pc = "threw" /\ confirm.out = "TIMEOUT"
           <=> ConfirmEnded /\ n = confirm.retries /\ last = ""
      /\ ConfirmEnded /\ confirm.retries = CONFIRM_RETRIES
           => _confirmDeal(confirm.answers, 0)
                = [ok |-> confirm.pc = "returned", status |-> confirm.out]

\* C28 witness: the call with the default retries has thrown the timeout
\* error after six polls without a dealStatus
C28_Witness ==
  /\ confirm.pc = "threw" /\ confirm.out = "TIMEOUT"
  /\ confirm.retries = CONFIRM_RETRIES
  /\ confirm.answers = << "", "", "", "", "", "" >>

\* onM5Close waits for signalsRepo.insertSignal, a query on the database
SinkPending == cfg.db /\ pcM5 = "m5_signal"

\* C27: while a persistence call has not completed, the M5 job is not held
\* back: its busy flag is down, so the next poll starts an evaluation
C27_Original == SinkPending => ~m5Busy

\* a step leaves the tracked positions, the daily counters, the setups, the
\* candle store and lastClosedTime as they are
KeepsTrading ==
  st' = st /\ store' = store /\ lastClosedTime' = lastClosedTime

\* C26: a step in which the price fetch of managePositions or of onM5Close,
\* the positions fetch of reconcilePositions or the candle fetch of
\* update('M5') throws changes neither the tracked positions, the daily
\* counters, the setups, the candle store nor lastClosedTime, and ends the
\* iteration with the busy flag of the job down and the timers in place
\* (onM5Close first writes its SKIP_MARKET_ERR signal, which changes none of
\* them either), so that the next callback of the job starts an iteration
C26_FailedFetchSkips ==
  [][/\ threw' # "NONE" => KeepsTrading /\ UNCHANGED << pcMain, shutting >>
     /\ threw' = "price" =>
          \/ pcTick = "mp_price" /\ pcTick' = "idle" /\ ~tickBusy'
          \/ /\ pcM5 = "m5_price" /\ pcM5' = "m5_signal"
             /\ sigAction' = "SKIP_MARKET_ERR"
     /\ threw' = "positions" =>
          pcRec = "rec_list" /\ pcRec' = "idle" /\ ~reconcBusy'
     /\ threw' = "candles" =>
          pcM5 = "m5_update" /\ pcM5' = "idle" /\ ~m5Busy'
     /\ (pcM5 = "m5_signal" /\ sigAction = "SKIP_MARKET_ERR" /\ pcM5' # pcM5)
          => KeepsTrading /\ pcM5' = "idle" /\ ~m5Busy'
    ]_vars

\* C26 witness: the price fetch of the second scalp evaluation has just
\* thrown, with a position tracked, an active scalp setup and two bars in
\* the M5 store
C26_Witness ==
  /\ threw = "price" /\ pcM5 = "m5_signal" /\ sigAction = "SKIP_MARKET_ERR"
  /\ st.openPositions # << >> /\ st.setupScalp.active
  /\ Len(store["M5"]) = 2 /\ lastClosedTime["M5"] > 0

\* C31 as stated: once reconcilePositions has removed a dealId, no later
\* step of a managePositions iteration that holds the position in its
\* snapshot puts a position with that dealId back into the tracked set.
C31_Original ==
  [][MpStep => \A d \in recGone \ Tracked : d \notin Tracked']_vars

\* C32 as stated: between two daily resets tradesToday never exceeds
\* MAX_TRADES_PER_DAY, for every interleaving of onM5Close and onH1Close.
C32_Original == st.tradesToday <= MAX_TRADES_PER_DAY

\* ------------------------------------------------- gate chain properties
\* the gates in the order of the specification; the names of the setup
\* gates are the names of their answers
GateOrder ==
  << "risk", "market", "spread", "trend", "chop", "flip", "alignmentOk",
     "noMeanBreak", "notExpired", "h1MacroOk", "m15StrengthOk", "bosOk",
     "rsiOk", "atrRatioOk", "bodyOk", "m1ok", "ml" >>

\* gate k refuses the inputs g (the gates from the trend flip on look at an
\* active setup only)
GateFails(g, k) ==
  LET n == GateOrder[k] IN
  CASE n = "risk"   -> ~g.riskOK
    [] n = "market" -> g.market # "OK"
    [] n = "spread" -> ~g.spreadOk
    [] n = "trend"  -> g.trend = "NONE"
    [] n = "chop"   -> g.isChop
    [] n = "flip"   -> /\ g.setup.active
                       /\ g.trend # (IF g.setup.direction = "BUY" THEN "UP"
                                                                   ELSE "DOWN")
    [] n = "ml"     -> g.setup.active /\ g.ml = "BLOCK"
    [] OTHER        -> g.setup.active /\ ~g.ok[n]

\* the skip label of gate k
GateLabel(g, k) ==
  LET n   == GateOrder[k]
      dir == g.setup.direction
  IN  CASE n = "risk"   -> "SKIP_RISK"
        [] n = "market" -> IF g.market = "ERR" THEN "SKIP_MARKET_ERR"
                                               ELSE "SKIP_MARKET_CLOSED"
        [] n = "spread" -> "SKIP_SPREAD"
        [] n = "trend"  -> "SKIP_TREND"
        [] n = "chop"   -> "SKIP_CHOP"
        [] n = "flip"   -> "SKIP_TREND_FLIP"
        [] n = "alignmentOk"   -> "SKIP_EMA_ALIGNMENT"
        [] n = "noMeanBreak"   -> "SKIP_MEAN_BREAK"
        [] n = "notExpired"    -> "SKIP_EXPIRED"
        [] n = "h1MacroOk"     -> dir \o "_SKIP_H1_MACRO"
        [] n = "m15StrengthOk" -> dir \o "_SKIP_M15_STRENGTH"
        [] n = "bosOk"         -> dir \o "_WATCHING"
        [] n = "rsiOk"         -> dir \o "_SKIP_RSI"
        [] n = "atrRatioOk"    -> dir \o "_SKIP_ATR_RATIO"
        [] n = "bodyOk"        -> dir \o "_SKIP_BODY"
        [] n = "m1ok"          -> dir \o "_SKIP_M1"
        [] n = "ml"            -> dir \o "_SKIP_ML"

\* the first gate of the order that refuses g, 0 when none does
FirstFailing(g) ==
  LET failing == { k \in 1 .. Len(GateOrder) : GateFails(g, k) }
  IN  IF failing = {} THEN 0
      ELSE CHOOSE k \in failing : \A j \in failing : k <= j

\* C33: the recorded action of onM5Close is the label of the first failing
\* gate in the order risk, market status, spread, trend, chop, trend flip,
\* EMA alignment, mean break, expiry, H1 macro, M15 strength, BOS, RSI, ATR
\* ratio, body, M1, ML, whatever the later gates would answer; the setup is
\* what the gates up to that one leave (untouched up to the spread gate,
\* active with its extreme tracked at the BOS gate, inactive otherwise); and
\* placeOrder is called only when no gate fails.
C33_FirstFailingGate ==
  gateRun.out # << >> =>
    LET g == gateRun.in[1]
        o == gateRun.out[1]
        k == FirstFailing(g)
    IN  /\ k # 0 => o.action = GateLabel(g, k) /\ ~o.order
        /\ k \in 1 .. 3 => o.setup = g.setup
        /\ (k > 3 /\ GateOrder[k] # "bosOk") => ~o.setup.active
        /\ (k > 3 /\ GateOrder[k] = "bosOk")
             => o.setup = updateSetupExtreme(g.setup, GateBar)
        /\ o.order <=> (k = 0 /\ g.setup.active)
        /\ o.order => o.action = g.setup.direction \o "_EXEC"

\* C33 witness: the RSI gate is the first to fail on a BUY setup while the
\* body gate and the model would refuse too; the action is BUY_SKIP_RSI
C33_Witness ==
  /\ gateRun.out # << >>
  /\ FirstFailing(gateRun.in[1]) = 13
  /\ ~gateRun.in[1].ok["bodyOk"] /\ gateRun.in[1].ml = "BLOCK"
  /\ gateRun.out[1].action = "BUY_SKIP_RSI"
  /\ ~gateRun.out[1].order

\* the closed bars of the timeframe from the creation bar of the setup an
\* evaluation finds (created on FirstBar, its extreme exact so far) up to
\* the latest stored bar
GateHistory == << FirstBar, GateBar >>

\* the lowest low (BUY) or highest high (SELL) of bars
ExtremeOver(direction, bars) ==
  IF direction = "BUY"
  THEN CHOOSE x \in { bars[i].low : i \in 1 .. Len(bars) } :
         \A i \in 1 .. Len(bars) : x <= bars[i].low
  ELSE CHOOSE x \in { bars[i].high : i \in 1 .. Len(bars) } :
         \A i \in 1 .. Len(bars) : x >= bars[i].high

\* C34 as stated: while a setup is active, after each evaluation its
\* pullbackExtreme is the lowest low (BUY) or highest high (SELL) over the
\* closed bars from its creation bar to the latest stored bar, also when the
\* evaluation ended at the risk, market-status or spread gate.
C34_Original ==
  (/\ gateRun.out # << >>
   /\ gateRun.in[1].setup.active
   /\ gateRun.out[1].setup.active)
    => gateRun.out[1].setup.pullbackExtreme
         = ExtremeOver(gateRun.in[1].setup.direction, GateHistory)

\* C35 as stated: every position placeOrder creates has its stop strictly on
\* the protective side of entry and tp1, tp2 strictly on the profitable
\* side, tp1 nearer than tp2, whatever bid/ask was live at order issue.
C35_Original ==
  gateRun.out # << >> =>
    LET pos == gateRun.out[1] IN
    /\ pos.direction = "BUY"
         => pos.sl < pos.entry /\ pos.tp1 > pos.entry /\ pos.tp2 > pos.entry
    /\ pos.direction = "SELL"
         => pos.sl > pos.entry /\ pos.tp1 < pos.entry /\ pos.tp2 < pos.entry
    /\ Abs(pos.tp1 - pos.entry) < Abs(pos.tp2 - pos.entry)

\* ------------------------------------------------ retention properties
\* C36 as stated: store[tf] never holds more than TF_HISTORY[tf] bars, after
\* loadHistory as well as after every update(tf).
C36_Original == \A tf \in TFs : Len(store[tf]) <= TF_HISTORY[tf]

\* C40: lastClosedTime[tf] never decreases, and whenever store[tf] holds
\* bars it is the time of the last of them, after loadHistory and after
\* every update(tf), the updates that trim the store included.
C40_LastClosedTracksStore ==
  [][\A tf \in TFs :
       /\ lastClosedTime'[tf] >= lastClosedTime[tf]
       /\ store'[tf] # << >>
            => lastClosedTime'[tf] = store'[tf][Len(store'[tf])].time]_vars

\* C40 witness: an update has appended a bar to a full M5 store and trimmed
\* the oldest bar away; lastClosedTime is the time of the appended bar
C40_Witness ==
  /\ lastUpd.ret /\ lastUpd.tf = "M5"
  /\ Len(store["M5"]) = TF_HISTORY["M5"]
  /\ store["M5"][1].time > TF_MS["M5"]
  /\ lastClosedTime["M5"] = lastUpd.added[Len(lastUpd.added)].time

\* dealId d is tracked in S and every tracked record of it has tp1Done
AllDoneIn(S, d) ==
  /\ TrackedAs(S, d) # {}
  /\ \A i \in TrackedAs(S, d) : S.openPositions[i].tp1Done

\* C37: tp1Done of a tracked dealId stays set for as long as the dealId is
\* tracked, the follower installed by a confirmed re-entry is tracked with
\* tp1Done, and the TP1 branch of managePositions has run at most once for
\* every dealId, a follower counting the run of the position it replaces.
C37_Tp1OncePerPosition ==
  [][/\ \A d \in DealIds :
          /\ (AllDoneIn(st, d) /\ d \in Tracked') => AllDoneIn(st', d)
          /\ tp1Runs'[d] <= 1
     /\ (ReentryStep /\ mpAnswer'.ok) =>
          /\ AllDoneIn(st', Val(mpAnswer'.dealId))
          /\ tp1Runs'[Val(mpAnswer'.dealId)] = 1]_vars

\* C37 witness: a later tick closes the follower of the adopted position at
\* its TP2 (a price beyond its TP1): the TP1 branch has run once for the
\* position it replaced and does not run for the follower
C37_Witness ==
  /\ pcTick = "mp_close" /\ mpBranch = "TP2"
  /\ mpSnap[mpIdx].dealId # 1 /\ mpSnap[mpIdx].tp1Done
  /\ tp1Hit(mpSnap[mpIdx], ExitPrice(mpSnap[mpIdx], mpQuote))
  /\ tp1Runs[mpSnap[mpIdx].dealId] = 1 /\ tp1Runs[1] = 1
\* C39 as stated: once destroySession has returned, the session tokens are
\* cleared and no refresh timer is armed.
C39_Original ==
  session.destroy = "done" =>
    /\ session.cst = 0 /\ session.secToken = 0
    /\ ~session.refreshTimer
\* C38: whenever no iteration of a guarded job (tick, reconcile, M5, H1) is
\* running, by a return or by an exception of its body, the busy flag of the
\* job is clear, and unless shutdown has begun the next fire of the job
\* passes the guard at the head of its callback.
C38_BusyFlagsCleared ==
  /\ pcTick = "idle" => ~tickBusy /\ (~shutting => JobStarts(tickBusy))
  /\ pcRec = "idle" => ~reconcBusy /\ (~shutting => JobStarts(reconcBusy))
  /\ pcM5 = "idle" => ~m5Busy /\ (~shutting => JobStarts(m5Busy))
  /\ pcH1 = "idle" => ~h1Busy /\ (~shutting => JobStarts(h1Busy))

\* C38 witness: cs.update threw in a candle job, the iteration is over and
\* the timers exist: the flags are clear and the job can start again
C38_Witness ==
  /\ threw = "candles" /\ TimersOn /\ ~shutting
  /\ pcM5 = "idle" /\ pcH1 = "idle" /\ ~m5Busy /\ ~h1Busy
  /\ Len(st.openPositions) > 0
====
